---- MODULE Spec2Model ----
(***************************************************************************)
(* ffb_replay: the effect model, the two FfbDriver backends (SimagicDriver *)
(* and SdlDriver), and the UsbMonitor capture subsystem, as state machines.*)
(*                                                                         *)
(* Specifications:                                                         *)
(*   SpecSimagic  one SimagicDriver instance and its caller                *)
(*   SpecSdl      one SdlDriver instance, its caller, the haptic device    *)
(*                and the capture thread filling the packet queue          *)
(*   SpecReader   the pcap reader loop of UsbMonitor at byte level, with a *)
(*                consumer calling get_packets                             *)
(*   SpecPure     the pure functions, each applied to one argument         *)
(*   SpecPlay     Scenario::play over a driver of the FfbDriver contract   *)
(*   Spec         a run of main with either driver                         *)
(***************************************************************************)
EXTENDS Integers, Sequences, FiniteSets, TLC

(***************************************************************************)
(* Bounds of the model.                                                    *)
(***************************************************************************)
\* magnitudes -MagSpan..MagSpan around zero are enumerated one by one
MagSpan == 3
\* packets the haptic device emits on the wire in one SdlDriver run
MaxEmit == 3
\* reads of the reader loop are counted up to MaxChunks ("MaxChunks or more")
MaxChunks == 4
\* the longest payload of the packets is_ffb_command is applied to
MaxPayloadLen == 8

(***************************************************************************)
(* Integer helpers: Rust's fixed-width arithmetic on TLC's integers.       *)
(***************************************************************************)
\* (v & 0xFF) as u8, for v an i16 or u16 (two's complement for negatives)
LoByte(v) == v % 256
\* ((v >> 8) & 0xFF) as u8: arithmetic shift is floor division
HiByte(v) == (v \div 256) % 256
\* the i16 read back from two little-endian bytes
I16FromLE(lo, hi) == LET u == lo + 256 * hi IN IF u >= 32768 THEN u - 65536 ELSE u
U16FromLE(lo, hi) == lo + 256 * hi
\* Option, Result and the unit value
None == [none |-> TRUE]
Some(v) == [some |-> v]
Ok(v) == [ok |-> TRUE, value |-> v]
Err(e) == [ok |-> FALSE, error |-> e]
Unit == "()"
\* n zero bytes
Zeros(n) == [i \in 1..n |-> 0]

Min(a, b) == IF a <= b THEN a ELSE b
Max(a, b) == IF a >= b THEN a ELSE b
I16_MIN == -32768
I16_MAX == 32767
\* i16::saturating_sub / saturating_add
saturating_sub_i16(a, b) == Max(I16_MIN, a - b)
saturating_add_i16(a, b) == Min(I16_MAX, a + b)
\* u16::saturating_sub
saturating_sub_u16(a, b) == Max(0, a - b)

(***************************************************************************)
(* f32 arithmetic.  3.28f32 = F32_MANT / 2^22 and 6.56f32 = F32_MANT/2^21  *)
(* (the nearest 24-bit significands).  x / c is the exact quotient rounded *)
(* to the nearest f32; only its ceiling is used by the encoder.            *)
(***************************************************************************)
F32_MANT == 13757317

RECURSIVE Pow2(_)
Pow2(k) == IF k <= 0 THEN 1 ELSE 2 * Pow2(k - 1)

\* <<q, r>> with x * 2^k = q * m + r, 0 <= r < m, by shift and subtract
\* (the product x * 2^k itself does not fit TLC's 32-bit integers)
RECURSIVE ShiftDiv(_, _, _, _)
ShiftDiv(q, r, m, k) ==
    IF k = 0 THEN <<q, r>>
    ELSE ShiftDiv(2 * q + (IF 2 * r >= m THEN 1 ELSE 0),
                  IF 2 * r >= m THEN 2 * r - m ELSE 2 * r, m, k - 1)

\* floor(log2(n)) for n >= 1
RECURSIVE Log2(_)
Log2(n) == IF n <= 1 THEN 0 ELSE 1 + Log2(n \div 2)

\* ceil of the f32 quotient (x as f32) / (F32_MANT / 2^shift), for 0 <= x < 2^16.
\* With n = floor of the exact quotient and rem its remainder, the f32 result
\* is n exactly when the fraction rem / F32_MANT is below half an ulp of n
\* (2^(e-24) for 2^e <= n < 2^(e+1)); otherwise it lies in (n, n+1].
F32DivCeil(x, shift) ==
    LET qr  == ShiftDiv(x \div F32_MANT, x % F32_MANT, F32_MANT, shift)
        n   == qr[1]
        rem == qr[2]
    IN  IF rem = 0 THEN n
        ELSE IF n = 0 THEN 1
        ELSE IF rem <= F32_MANT \div Pow2(24 - Log2(n)) THEN n
        ELSE n + 1

(***************************************************************************)
(* effects.rs: the effect model.                                           *)
(***************************************************************************)
WaveType == {"Sine", "Square", "Triangle", "SawtoothUp", "SawtoothDown"}
ConditionType == {"Spring", "Damper", "Friction", "Inertia"}

DefaultDirection == 0
DefaultEnvelope ==
    [attack_time |-> 0, attack_level |-> 0, fade_time |-> 0, fade_level |-> 0]
DefaultConditionParams ==
    [offset |-> 0, positive_coefficient |-> 10000, negative_coefficient |-> 10000,
     positive_saturation |-> 10000, negative_saturation |-> 10000, dead_band |-> 0]
DefaultEffectParams == [duration |-> 1000, start_delay |-> 0, gain |-> 10000]

EffectConstant(params, force) == [type |-> "Constant", params |-> params, force |-> force]
EffectPeriodic(params, effect) == [type |-> "Periodic", params |-> params, effect |-> effect]
EffectRamp(params, effect) == [type |-> "Ramp", params |-> params, effect |-> effect]
EffectCondition(params, effect) == [type |-> "Condition", params |-> params, effect |-> effect]

\* a duration that is one second whatever the effect says
MutDurationAlwaysSecond(effect) == 1000

\* Effect::duration
duration(effect) == effect.params.duration
\* Effect::start_delay
start_delay(effect) == effect.params.start_delay

(***************************************************************************)
(* The effects the callers of the model apply.                             *)
(***************************************************************************)
MagnitudeValues ==
    (-MagSpan .. MagSpan)
        \cup {-32768, -10001, -10000, -9999, -5000, -50, 50, 5000, 9999, 10000, 10001, 32767}
DurationValues == {0, 1, 255, 256, 1000, 65535, 65536, 2147483647}

ConstantEffects ==
    {EffectConstant(DefaultEffectParams,
        [magnitude |-> m, direction |-> DefaultDirection, envelope |-> DefaultEnvelope])
        : m \in MagnitudeValues}
    \cup
    {EffectConstant([duration |-> d, start_delay |-> sd, gain |-> 10000],
        [magnitude |-> m, direction |-> 90, envelope |-> DefaultEnvelope])
        : d \in DurationValues, sd \in {0, 500}, m \in {5000}}

PeriodicEffects ==
    {EffectPeriodic([duration |-> d, start_delay |-> 0, gain |-> 10000],
        [wave_type |-> w, magnitude |-> 5000, offset |-> 0, phase |-> 0,
         period |-> 100, direction |-> DefaultDirection, envelope |-> DefaultEnvelope])
        : w \in WaveType, d \in {0, 1000}}

RampEffects ==
    {EffectRamp([duration |-> d, start_delay |-> 0, gain |-> 10000],
        [start_magnitude |-> s, end_magnitude |-> 10000,
         direction |-> DefaultDirection, envelope |-> DefaultEnvelope])
        : d \in {0, 1000}, s \in {-10000, 0}}

ConditionParamsValues ==
    {DefaultConditionParams}
    \cup {[DefaultConditionParams EXCEPT !.offset = o] : o \in {-10000, -328, -1, 1, 328, 329, 10000}}
    \cup {[DefaultConditionParams EXCEPT !.positive_coefficient = c, !.negative_coefficient = -c]
            : c \in {-9999, -1, 0, 1, 5000}}
    \cup {[DefaultConditionParams EXCEPT !.positive_saturation = s, !.negative_saturation = 10000 - s]
            : s \in {0, 1, 2, 3, 4, 5000}}
    \cup {[DefaultConditionParams EXCEPT !.dead_band = d] : d \in {1, 6, 7, 656, 657, 10000}}

ConditionEffects ==
    {EffectCondition(DefaultEffectParams, [condition_type |-> c, x_axis |-> DefaultConditionParams])
        : c \in ConditionType}
    \cup
    {EffectCondition([duration |-> 0, start_delay |-> 0, gain |-> 10000],
        [condition_type |-> "Spring", x_axis |-> x]) : x \in ConditionParamsValues}

\* effects that differ in gain, start delay, direction and envelope and, for
\* Periodic and Ramp, in the fields of the wave and of the ramp
VariedEnvelope ==
    [attack_time |-> 100, attack_level |-> 5000, fade_time |-> 200, fade_level |-> 2500]
VariedParams ==
    {[duration |-> 1000, start_delay |-> sd, gain |-> g] : sd \in {0, 500}, g \in {5000, 10000}}
VariedEffects ==
    {EffectConstant(p, [magnitude |-> 5000, direction |-> v.direction, envelope |-> v.envelope])
        : p \in VariedParams,
          v \in {[direction |-> DefaultDirection, envelope |-> DefaultEnvelope],
                 [direction |-> 90, envelope |-> VariedEnvelope]}}
    \cup
    {EffectPeriodic(p, [wave_type |-> "Sine", magnitude |-> v.magnitude, offset |-> v.offset,
                        phase |-> v.phase, period |-> v.period,
                        direction |-> DefaultDirection, envelope |-> v.envelope])
        : p \in VariedParams,
          v \in {[magnitude |-> 5000, offset |-> 0, phase |-> 0, period |-> 100,
                  envelope |-> DefaultEnvelope],
                 [magnitude |-> 10000, offset |-> 100, phase |-> 9000, period |-> 200,
                  envelope |-> VariedEnvelope]}}
    \cup
    {EffectRamp(p, [start_magnitude |-> v.start, end_magnitude |-> v.end,
                    direction |-> v.direction, envelope |-> DefaultEnvelope])
        : p \in VariedParams,
          v \in {[start |-> 0, end |-> 10000, direction |-> DefaultDirection],
                 [start |-> -5000, end |-> 5000, direction |-> 90]}}
    \cup
    {EffectCondition(p, [condition_type |-> "Spring", x_axis |-> DefaultConditionParams])
        : p \in VariedParams}

Effects ==
    ConstantEffects \cup PeriodicEffects \cup RampEffects \cup ConditionEffects
        \cup VariedEffects

(***************************************************************************)
(* simagic_driver.rs: the report format.                                   *)
(***************************************************************************)
REPORT_ID == 1
\* enum FfbCommand
SetEffect == 1
SetConditionParams == 3
SetConstantMagnitude == 5
StartEffect == 10
StopEffect == 11


\* FfbReport::default
FfbReportDefault ==
    [report_id |-> REPORT_ID, command |-> 0, effect_type |-> 0, data |-> Zeros(18)]

\* data[i] = v for the zero-based index i of the source
SetData(report, i, v) == [report EXCEPT !.data[i + 1] = v]

\* FfbReport::to_bytes
to_bytes(report) == <<report.report_id, report.command, report.effect_type>> \o report.data

\* a mapping in which Inertia shares the code of Friction
MutInertiaSharesFriction(effect) ==
    CASE effect.type = "Constant" -> 1
      [] effect.type = "Periodic" ->
            (CASE effect.effect.wave_type = "Sine" -> 2
               [] effect.effect.wave_type = "Square" -> 15
               [] effect.effect.wave_type = "Triangle" -> 16
               [] effect.effect.wave_type = "SawtoothUp" -> 17
               [] effect.effect.wave_type = "SawtoothDown" -> 18)
      [] effect.type = "Ramp" -> 14
      [] effect.type = "Condition" ->
            (CASE effect.effect.condition_type = "Spring" -> 6
               [] effect.effect.condition_type = "Damper" -> 5
               [] effect.effect.condition_type \in {"Friction", "Inertia"} -> 7)
\* impl From<&Effect> for SimagicEffectType, with the enum's discriminants
SimagicEffectType(effect) ==
    CASE effect.type = "Constant" -> 1
      [] effect.type = "Periodic" ->
            (CASE effect.effect.wave_type = "Sine" -> 2
               [] effect.effect.wave_type = "Square" -> 15
               [] effect.effect.wave_type = "Triangle" -> 16
               [] effect.effect.wave_type = "SawtoothUp" -> 17
               [] effect.effect.wave_type = "SawtoothDown" -> 18)
      [] effect.type = "Ramp" -> 14
      [] effect.type = "Condition" ->
            (CASE effect.effect.condition_type = "Spring" -> 6
               [] effect.effect.condition_type = "Damper" -> 5
               [] effect.effect.condition_type = "Friction" -> 7
               [] effect.effect.condition_type = "Inertia" -> 9)

\* a SetEffect report whose duration wraps at 16 bits instead of clamping
MutSetEffectWraps(effect_type, duration_ms) ==
    LET d == duration_ms % 65536
    IN  <<REPORT_ID, SetEffect, effect_type, 1, LoByte(d), HiByte(d),
          0, 0, 0, 0, 255, 255, 4, 63>> \o Zeros(7)

\* SimagicDriver::create_set_effect_report
create_set_effect_report(effect_type, duration_ms) ==
    LET d  == Min(duration_ms, 65535)
        r0 == [FfbReportDefault EXCEPT !.command = SetEffect, !.effect_type = effect_type]
        r1 == SetData(r0, 0, 1)
        r2 == SetData(SetData(r1, 1, LoByte(d)), 2, HiByte(d))
        r3 == SetData(SetData(r2, 3, 0), 4, 0)
        r4 == SetData(SetData(r3, 5, 0), 6, 0)
        r5 == SetData(SetData(r4, 7, 255), 8, 255)
        r6 == SetData(SetData(r5, 9, 4), 10, 63)
    IN  to_bytes(r6)

\* a quantization that writes the magnitude as given
MutKeepMagnitude(magnitude) == magnitude

\* the adjusted magnitude of create_set_constant_magnitude_report
adjusted_magnitude(magnitude) ==
    IF magnitude = 1 THEN 0
    ELSE IF magnitude = 10000 \/ magnitude = -10000 \/ magnitude = 0 THEN magnitude
    ELSE IF magnitude > 0 THEN saturating_sub_i16(magnitude, 1)
    ELSE saturating_add_i16(magnitude, 1)

\* SimagicDriver::create_set_constant_magnitude_report
create_set_constant_magnitude_report(effect_slot, magnitude) ==
    LET adjusted == adjusted_magnitude(magnitude)
        r0 == [FfbReportDefault EXCEPT !.command = SetConstantMagnitude,
                                       !.effect_type = effect_slot]
        r1 == SetData(SetData(r0, 0, LoByte(adjusted)), 1, HiByte(adjusted))
    IN  to_bytes(r1)

\* an offset encoding that takes the ceiling whatever the sign
MutOffsetCeilAlways(offset) ==
    IF offset >= 0 THEN ((offset * 25) + 81) \div 82 ELSE 0 - (((0 - offset) * 25) \div 82)

\* offset: (offset as f32) / 3.28, ceil if offset >= 0 else floor, as i16
encode_offset(offset) ==
    IF offset >= 0 THEN F32DivCeil(offset, 22) ELSE 0 - F32DivCeil(0 - offset, 22)

\* a coefficient encoding that moves negative coefficients toward zero
MutCoefficientTowardZero(c) ==
    IF c = 0 \/ c >= 10000 THEN c ELSE IF c > 0 THEN c - 1 ELSE c + 1

\* coefficient: unchanged at 0 or >= 10000, otherwise minus one
encode_coefficient(c) == IF c = 0 \/ c >= 10000 THEN c ELSE c - 1

\* a saturation encoding that halves and does not subtract
MutSatHalf(s) == s \div 2

\* saturation: (saturation / 2).saturating_sub(1)
encode_sat(s) == saturating_sub_u16(s \div 2, 1)

\* a dead-band encoding that rounds down
MutDeadbandFloor(d) == (d * 25) \div 164

\* a dead-band encoding that rounds down and adds one
MutDeadbandFloorPlusOne(d) == ((d * 100) \div 656) + 1

\* dead band: ((dead_band as f32) / 6.56).ceil() as u16
encode_deadband(d) == F32DivCeil(d, 21)

\* SimagicDriver::create_set_condition_params_report
create_set_condition_params_report(effect_type, params) ==
    LET offset    == encode_offset(params.offset)
        pos_coeff == encode_coefficient(params.positive_coefficient)
        neg_coeff == encode_coefficient(params.negative_coefficient)
        pos_sat   == encode_sat(params.positive_saturation)
        neg_sat   == encode_sat(params.negative_saturation)
        dead_band == encode_deadband(params.dead_band)
        r0 == [FfbReportDefault EXCEPT !.command = SetConditionParams,
                                       !.effect_type = effect_type]
        r1 == SetData(r0, 0, 0)
        r2 == SetData(SetData(r1, 1, LoByte(offset)), 2, HiByte(offset))
        r3 == SetData(SetData(r2, 3, LoByte(pos_coeff)), 4, HiByte(pos_coeff))
        r4 == SetData(SetData(r3, 5, LoByte(neg_coeff)), 6, HiByte(neg_coeff))
        r5 == SetData(SetData(r4, 7, LoByte(pos_sat)), 8, HiByte(pos_sat))
        r6 == SetData(SetData(r5, 9, LoByte(neg_sat)), 10, HiByte(neg_sat))
        r7 == SetData(SetData(r6, 11, LoByte(dead_band)), 12, HiByte(dead_band))
    IN  to_bytes(r7)

\* SimagicDriver::create_start_effect_report
create_start_effect_report(effect_type, effect_slot) ==
    LET r0 == [FfbReportDefault EXCEPT !.command = StartEffect, !.effect_type = effect_type]
        r1 == SetData(SetData(r0, 0, effect_slot), 1, 1)
    IN  to_bytes(r1)

\* format!("{:02X}", b): two uppercase hexadecimal digits
HexDigit == <<"0", "1", "2", "3", "4", "5", "6", "7", "8", "9", "A", "B", "C", "D", "E", "F">>
\* usb_monitor.rs format_hex: the pairs of every byte joined by single spaces,
\* as a sequence of characters
format_hex(data) ==
    [i \in 1 .. (3 * Len(data) - 1) |->
        IF i % 3 = 0 THEN " "
        ELSE IF i % 3 = 1 THEN HexDigit[(data[(i + 2) \div 3] \div 16) + 1]
        ELSE HexDigit[(data[(i + 1) \div 3] % 16) + 1]]
\* a rendering with lowercase digits
MutFormatLowercase(report) ==
    LET lower == <<"0", "1", "2", "3", "4", "5", "6", "7", "8", "9", "a", "b", "c", "d", "e", "f">>
    IN  [i \in 1 .. (3 * Len(report) - 1) |->
            IF i % 3 = 0 THEN " "
            ELSE IF i % 3 = 1 THEN lower[(report[(i + 2) \div 3] \div 16) + 1]
            ELSE lower[(report[(i + 1) \div 3] % 16) + 1]]

\* SimagicDriver::format_report: the same rendering, of a 21-byte report
format_report(report) == format_hex(report)

(***************************************************************************)
(* usb_monitor.rs: packets and their classification.                       *)
(***************************************************************************)
PacketDirection == {"HostToDevice", "DeviceToHost"}

\* std::time::Duration: whole seconds and the microseconds below one second
Duration(secs, micros) == [secs |-> secs + micros \div 1000000, micros |-> micros % 1000000]

UsbPacket(timestamp, direction, endpoint, data) ==
    [timestamp |-> timestamp, direction |-> direction, endpoint |-> endpoint, data |-> data]

\* the report ids matched by the matches! of is_ffb_command
FfbReportIds == (17 .. 21) \cup {243, 245} \cup (1 .. 15) \cup {33}

\* UsbMonitor::is_ffb_command
is_ffb_command(packet) ==
    IF packet.direction # "HostToDevice" THEN FALSE
    ELSE IF Len(packet.data) = 0 THEN FALSE
    ELSE packet.data[1] \in FfbReportIds \/ Len(packet.data) >= 7

\* a get_packets that returns the queue and does not clear it
MutGetKeepsQueue(queue) == [result |-> queue, packets |-> queue]

\* a get_packets whose clear leaves the oldest packet in the queue
MutGetKeepsHead(queue) ==
    [result |-> queue, packets |-> IF queue = <<>> THEN <<>> ELSE <<Head(queue)>>]

\* a get_packets whose clone misses the newest packet
MutGetDropsNewest(queue) ==
    [result |-> IF queue = <<>> THEN <<>> ELSE SubSeq(queue, 1, Len(queue) - 1),
     packets |-> <<>>]

\* UsbMonitor::get_packets: under the queue's lock, the clone that is returned
\* and the queue after clear()
get_packets(queue) == [result |-> queue, packets |-> <<>>]

RECURSIVE SelectFfb(_)
\* packets.iter().filter(|p| UsbMonitor::is_ffb_command(p))
SelectFfb(queue) ==
    IF queue = <<>> THEN <<>>
    ELSE (IF is_ffb_command(Head(queue)) THEN <<Head(queue)>> ELSE <<>>)
         \o SelectFfb(Tail(queue))

\* the payloads of all drained packets, unfiltered
MutUnfilteredPackets(drained) == [i \in 1 .. Len(drained) |-> format_hex(drained[i].data)]

\* SdlDriver::apply_effect: captured_packets, from the drained packets
captured_packets(drained) ==
    LET kept == SelectFfb(drained)
    IN  [i \in 1 .. Len(kept) |-> format_hex(kept[i].data)]

(***************************************************************************)
(* usb_monitor.rs: the pcap stream and the record decoders.                *)
(***************************************************************************)
\* a little-endian u32 as usize.  Values of 2^30 and more are written 2^30:
\* they exceed the length of every buffer of the model
U32_CAP == 1073741824
U32LE(b0, b1, b2, b3) ==
    IF b3 >= 64 THEN U32_CAP ELSE b0 + 256 * b1 + 65536 * b2 + 16777216 * b3
\* the little-endian value of a byte sequence (below 2^31 in the model)
RECURSIVE LEValue(_)
LEValue(bytes) == IF bytes = <<>> THEN 0 ELSE Head(bytes) + 256 * LEValue(Tail(bytes))

\* the slice data[from..to) of the source, zero-based, end excluded
Slice(data, from, to) == SubSeq(data, from + 1, to)
\* data[i] of the source, zero-based
At(data, i) == data[i + 1]

PCAP_GLOBAL_HEADER_LEN == 24
PCAP_RECORD_HEADER_LEN == 16
USBMON_HEADER_LEN == 64
USBPCAP_MIN_LEN == 27

PcapMagics == {<<212, 195, 178, 161>>, <<161, 178, 195, 212>>}

\* UsbMonitor::parse_usbmon_packet (Linux): None, or Some(packet)
parse_usbmon_packet(data) ==
    IF Len(data) < USBMON_HEADER_LEN THEN None
    ELSE LET event_type == At(data, 8)
             xfer_type  == At(data, 9)
             epnum      == At(data, 10)
             direction  == IF epnum >= 128 THEN "DeviceToHost" ELSE "HostToDevice"
             endpoint   == epnum % 128
             len_cap    == U32LE(At(data, 36), At(data, 37), At(data, 38), At(data, 39))
             payload_data ==
                 IF Len(data) > USBMON_HEADER_LEN /\ len_cap > 0
                 THEN Slice(data, USBMON_HEADER_LEN, Min(USBMON_HEADER_LEN + len_cap, Len(data)))
                 ELSE <<>>
             ts_sec  == LEValue(Slice(data, 16, 24))
             ts_usec == LEValue(Slice(data, 24, 28))
         IN  IF direction = "DeviceToHost" THEN None
             ELSE IF event_type # 83 THEN None            \* 'S'
             ELSE IF xfer_type # 1 /\ xfer_type # 2 THEN None
             ELSE IF Len(payload_data) = 0 \/ Len(payload_data) < 2 THEN None
             ELSE Some(UsbPacket(Duration(ts_sec, ts_usec), direction, endpoint, payload_data))

\* UsbMonitor::parse_usbpcap_packet (Windows): None, or Some(packet)
parse_usbpcap_packet(data) ==
    IF Len(data) < USBPCAP_MIN_LEN THEN None
    ELSE LET header_len == At(data, 0) + 256 * At(data, 1)
         IN  IF Len(data) < header_len THEN None
             ELSE LET info          == At(data, 16)
                      direction     == IF info % 2 = 1 THEN "DeviceToHost" ELSE "HostToDevice"
                      endpoint      == At(data, 21) % 128
                      transfer_type == At(data, 22)
                      payload_data  == IF Len(data) > header_len
                                       THEN Slice(data, header_len, Len(data)) ELSE <<>>
                  IN  IF transfer_type # 1 /\ transfer_type # 2 THEN None
                      ELSE IF Len(payload_data) = 0 THEN None
                      ELSE IF direction = "DeviceToHost" THEN None
                      ELSE IF Len(payload_data) < 2 THEN None
                      ELSE Some(UsbPacket(Duration(0, 0), direction, endpoint, payload_data))

\* the decoder the reader loop of each platform calls
parse_record(platform, data) ==
    IF platform = "linux" THEN parse_usbmon_packet(data) ELSE parse_usbpcap_packet(data)

\* a record loop that stops at a record the decoder rejects and leaves it in
\* the buffer
MutParseStopsAtRejected(platform, pcap_buffer) ==
    IF Len(pcap_buffer) < PCAP_RECORD_HEADER_LEN
    THEN [more |-> FALSE, pcap_buffer |-> pcap_buffer, pushed |-> <<>>]
    ELSE LET incl_len == U32LE(At(pcap_buffer, 8), At(pcap_buffer, 9),
                               At(pcap_buffer, 10), At(pcap_buffer, 11))
             total_packet_len == PCAP_RECORD_HEADER_LEN + incl_len
         IN  IF Len(pcap_buffer) < total_packet_len
             THEN [more |-> FALSE, pcap_buffer |-> pcap_buffer, pushed |-> <<>>]
             ELSE LET packet_data == Slice(pcap_buffer, PCAP_RECORD_HEADER_LEN, total_packet_len)
                      usb_packet  == parse_record(platform, packet_data)
                  IN  IF usb_packet = None
                      THEN [more |-> FALSE, pcap_buffer |-> pcap_buffer, pushed |-> <<>>]
                      ELSE [more |-> TRUE,
                            pcap_buffer |-> Slice(pcap_buffer, total_packet_len, Len(pcap_buffer)),
                            pushed |-> <<usb_packet.some>>]

\* one test of the inner while of the reader loop and, when a whole record
\* is buffered, one pass through its body: the record is decoded, pushed if
\* the decoder keeps it, and removed from the buffer
parse_one(platform, pcap_buffer) ==
    IF Len(pcap_buffer) < PCAP_RECORD_HEADER_LEN
    THEN [more |-> FALSE, pcap_buffer |-> pcap_buffer, pushed |-> <<>>]
    ELSE LET incl_len == U32LE(At(pcap_buffer, 8), At(pcap_buffer, 9),
                               At(pcap_buffer, 10), At(pcap_buffer, 11))
             total_packet_len == PCAP_RECORD_HEADER_LEN + incl_len
         IN  IF Len(pcap_buffer) < total_packet_len
             THEN [more |-> FALSE, pcap_buffer |-> pcap_buffer, pushed |-> <<>>]
             ELSE LET packet_data == Slice(pcap_buffer, PCAP_RECORD_HEADER_LEN, total_packet_len)
                      usb_packet  == parse_record(platform, packet_data)
                  IN  [more |-> TRUE,
                       pcap_buffer |-> Slice(pcap_buffer, total_packet_len, Len(pcap_buffer)),
                       pushed |-> IF usb_packet = None THEN <<>> ELSE <<usb_packet.some>>]

\* the inner while run to its end: the buffer left and the packets pushed
RECURSIVE parse_records(_, _, _)
parse_records(platform, pcap_buffer, pushed) ==
    LET one == parse_one(platform, pcap_buffer)
    IN  IF one.more
        THEN parse_records(platform, one.pcap_buffer, pushed \o one.pushed)
        ELSE [pcap_buffer |-> pcap_buffer, pushed |-> pushed]

\* the Ok(n) arm of the reader loop up to the inner while: the chunk is
\* appended and, while the global header is outstanding and 24 bytes are
\* buffered, the magic is verified and the header removed
read_chunk(pcap_buffer, header_read, chunk) ==
    LET extended == pcap_buffer \o chunk
    IN  IF ~header_read /\ Len(extended) >= PCAP_GLOBAL_HEADER_LEN
        THEN IF Slice(extended, 0, 4) \in PcapMagics
             THEN [pcap_buffer |-> Slice(extended, PCAP_GLOBAL_HEADER_LEN, Len(extended)),
                   header_read |-> TRUE, break |-> FALSE]
             ELSE [pcap_buffer |-> extended, header_read |-> FALSE, break |-> TRUE]
        ELSE [pcap_buffer |-> extended, header_read |-> header_read, break |-> FALSE]

\* the packets the reader loop queues when the whole stream arrives in one read
single_chunk_packets(platform, bytes) ==
    LET rc == read_chunk(<<>>, FALSE, bytes)
    IN  IF rc.break THEN <<>> ELSE parse_records(platform, rc.pcap_buffer, <<>>).pushed

(***************************************************************************)
(* The byte streams a capture process writes to its pipe.                  *)
(***************************************************************************)
LE16(v) == <<v % 256, (v \div 256) % 256>>
LE32(v) == <<v % 256, (v \div 256) % 256, (v \div 65536) % 256, (v \div 16777216) % 256>>

\* pcap global header: magic, version 2.4, thiszone 0, sigfigs 0, snaplen,
\* link type (220 usbmon, 249 USBPcap)
GlobalHeader(magic, linktype) ==
    magic \o LE16(2) \o LE16(4) \o LE32(0) \o LE32(0) \o LE32(262144) \o LE32(linktype)

\* pcap record: ts_sec, ts_usec, incl_len, orig_len, then the captured bytes
PcapRecord(ts_sec, ts_usec, data) ==
    LE32(ts_sec) \o LE32(ts_usec) \o LE32(Len(data)) \o LE32(Len(data)) \o data

\* usbmon's mon_bin_hdr (64 bytes) and the payload
UsbmonRecord(event_type, xfer_type, epnum, ts_sec, ts_usec, payload) ==
    Zeros(8) \o <<event_type, xfer_type, epnum, 3>> \o LE16(1) \o <<45, 0>>
        \o LE32(ts_sec) \o Zeros(4) \o LE32(ts_usec) \o Zeros(4)
        \o LE32(Len(payload)) \o LE32(Len(payload)) \o Zeros(24) \o payload

\* USBPcap's packet header (27 bytes) and the payload
UsbpcapRecord(info, endpoint, transfer, payload) ==
    LE16(27) \o Zeros(14) \o <<info>> \o LE16(1) \o LE16(3) \o <<endpoint, transfer>>
        \o LE32(Len(payload)) \o payload

LinuxHeader == GlobalHeader(<<212, 195, 178, 161>>, 220)
WindowsHeader == GlobalHeader(<<212, 195, 178, 161>>, 249)

\* one record each decoder keeps: an interrupt OUT transfer to endpoint 1
LinuxKeptRecord == PcapRecord(7, 5, UsbmonRecord(83, 1, 1, 7, 5, <<1, 10>>))
\* one it drops: the completion event of the same transfer
LinuxDroppedRecord == PcapRecord(7, 9, UsbmonRecord(67, 1, 1, 7, 9, <<>>))
WindowsKeptRecord == PcapRecord(7, 5, UsbpcapRecord(0, 1, 1, <<1, 5>>))
WindowsDroppedRecord == PcapRecord(7, 9, UsbpcapRecord(1, 129, 1, <<0, 0>>))

\* a valid global header followed by one decodable record
OneRecordStreams ==
    {[platform |-> "linux", bytes |-> LinuxHeader \o LinuxKeptRecord],
     [platform |-> "windows", bytes |-> WindowsHeader \o WindowsKeptRecord]}

\* text instead of a capture: "tcpdump: usbmon0: You don't have permission"
TextStream == <<116, 99, 112, 100, 117, 109, 112, 58, 32, 117, 115, 98, 109, 111, 110, 48,
                58, 32, 89, 111, 117, 32, 100, 111, 110, 39, 116, 32, 104, 97>>

Streams ==
    OneRecordStreams
    \cup {[platform |-> "windows",
           bytes |-> WindowsHeader \o WindowsDroppedRecord \o WindowsKeptRecord \o WindowsKeptRecord],
          [platform |-> "linux", bytes |-> TextStream]}

(***************************************************************************)
(* sdl_driver.rs: the translation to the native effect record.             *)
(* SCALE_FACTOR = 32767.0f32 / 10000.0f32 = 13743476 / 2^22                *)
(*              = (SCALE_HI * 2^10 + SCALE_LO) / 2^20.                     *)
(***************************************************************************)
SCALE_HI == 3355
SCALE_LO == 349
\* SDL_HAPTIC_INFINITY is the u32 0xFFFFFFFF, written as its 32-bit two's
\* complement; the durations of the model stay below 2^31
SDL_HAPTIC_INFINITY == -1

\* trunc((a as f32) * SCALE_FACTOR) for 0 <= a < 2^16: the exact product is
\* n + rem / 2^20; rounded to 24 significant bits it reaches n + 1 when rem
\* is within half an ulp of 2^20
F32ScaleTrunc(a) ==
    LET hi  == a * SCALE_HI
        r   == (hi % 1024) * 1024 + a * SCALE_LO
        n   == (hi \div 1024) + (r \div 1048576)
        rem == r % 1048576
    IN  IF n >= 16 /\ rem >= 1048576 - Pow2(Log2(n) - 4) THEN n + 1 ELSE n

\* scale_magnitude
scale_magnitude(value) ==
    IF value >= 0 THEN Min(F32ScaleTrunc(value), 32767)
    ELSE 0 - Min(F32ScaleTrunc(0 - value), 32767)

\* scale_magnitude_u16
scale_magnitude_u16(value) == Min(F32ScaleTrunc(value), 32767)

\* x as u16, for x a u32
AsU16(x) == x % 65536

\* SdlDriver::map_direction
map_direction(direction) ==
    [type |-> "SDL_HAPTIC_CARTESIAN", dir |-> <<direction * 100, 0, 0>>]

\* a length that is the duration as it stands, 0 included
MutLengthVerbatim(params) == params.duration

\* the length field of every variant
native_length(params) ==
    IF params.duration = 0 THEN SDL_HAPTIC_INFINITY ELSE params.duration

\* SdlDriver::create_constant_effect
create_constant_effect(params, force) ==
    [type |-> "SDL_HAPTIC_CONSTANT",
     direction |-> map_direction(force.direction),
     length |-> native_length(params),
     delay |-> AsU16(params.start_delay),
     level |-> scale_magnitude(force.magnitude),
     attack_length |-> AsU16(force.envelope.attack_time),
     attack_level |-> scale_magnitude_u16(force.envelope.attack_level),
     fade_length |-> AsU16(force.envelope.fade_time),
     fade_level |-> scale_magnitude_u16(force.envelope.fade_level)]

\* SdlDriver::create_periodic_effect
create_periodic_effect(params, periodic) ==
    [type |-> CASE periodic.wave_type = "Sine" -> "SDL_HAPTIC_SINE"
                [] periodic.wave_type = "Square" -> "SDL_HAPTIC_SQUARE"
                [] periodic.wave_type = "Triangle" -> "SDL_HAPTIC_TRIANGLE"
                [] periodic.wave_type = "SawtoothUp" -> "SDL_HAPTIC_SAWTOOTHUP"
                [] periodic.wave_type = "SawtoothDown" -> "SDL_HAPTIC_SAWTOOTHDOWN",
     direction |-> map_direction(periodic.direction),
     length |-> native_length(params),
     delay |-> AsU16(params.start_delay),
     period |-> AsU16(periodic.period),
     magnitude |-> scale_magnitude_u16(periodic.magnitude),
     offset |-> scale_magnitude(periodic.offset),
     phase |-> periodic.phase,
     attack_length |-> AsU16(periodic.envelope.attack_time),
     attack_level |-> scale_magnitude_u16(periodic.envelope.attack_level),
     fade_length |-> AsU16(periodic.envelope.fade_time),
     fade_level |-> scale_magnitude_u16(periodic.envelope.fade_level)]

\* SdlDriver::create_ramp_effect
create_ramp_effect(params, ramp) ==
    [type |-> "SDL_HAPTIC_RAMP",
     direction |-> map_direction(ramp.direction),
     length |-> native_length(params),
     delay |-> AsU16(params.start_delay),
     start |-> scale_magnitude(ramp.start_magnitude),
     end |-> scale_magnitude(ramp.end_magnitude),
     attack_length |-> AsU16(ramp.envelope.attack_time),
     attack_level |-> scale_magnitude_u16(ramp.envelope.attack_level),
     fade_length |-> AsU16(ramp.envelope.fade_time),
     fade_level |-> scale_magnitude_u16(ramp.envelope.fade_level)]

\* SdlDriver::create_condition_effect (index 0 of each per-axis array; the
\* other axes stay zeroed)
create_condition_effect(params, condition) ==
    [type |-> CASE condition.condition_type = "Spring" -> "SDL_HAPTIC_SPRING"
                [] condition.condition_type = "Damper" -> "SDL_HAPTIC_DAMPER"
                [] condition.condition_type = "Friction" -> "SDL_HAPTIC_FRICTION"
                [] condition.condition_type = "Inertia" -> "SDL_HAPTIC_INERTIA",
     direction |-> [type |-> "SDL_HAPTIC_CARTESIAN", dir |-> <<0, 0, 0>>],
     length |-> native_length(params),
     delay |-> AsU16(params.start_delay),
     right_sat |-> scale_magnitude_u16(condition.x_axis.positive_saturation),
     left_sat |-> scale_magnitude_u16(condition.x_axis.negative_saturation),
     right_coeff |-> scale_magnitude(condition.x_axis.positive_coefficient),
     left_coeff |-> scale_magnitude(condition.x_axis.negative_coefficient),
     deadband |-> condition.x_axis.dead_band,
     center |-> condition.x_axis.offset]

\* SdlDriver::apply_effect: the match that builds sdl_effect
sdl_effect_of(effect) ==
    CASE effect.type = "Constant" -> create_constant_effect(effect.params, effect.force)
      [] effect.type = "Periodic" -> create_periodic_effect(effect.params, effect.effect)
      [] effect.type = "Ramp" -> create_ramp_effect(effect.params, effect.effect)
      [] effect.type = "Condition" -> create_condition_effect(effect.params, effect.effect)

(***************************************************************************)
(* State.                                                                  *)
(***************************************************************************)
VARIABLES
    driver,               \* main.rs: the backend the run was started with
    \* SimagicDriver
    current_effect_slot,  \* SimagicDriver.current_effect_slot
    sim_initialized,      \* SimagicDriver.initialized
    sim_op,               \* the last FfbDriver operation called on it
    sim_effect,           \* apply_effect: the effect of the last call
    generated_reports,    \* apply_effect: its local generated_reports (bytes)
    sim_result,           \* the value the last operation returned
    sim_waited,           \* milliseconds the last operation slept
    sim_pre               \* the driver's fields when the last operation began

simVars == <<current_effect_slot, sim_initialized, sim_op, sim_effect,
             generated_reports, sim_result, sim_waited, sim_pre>>


(***************************************************************************)
(* simagic_driver.rs: impl FfbDriver for SimagicDriver.  Each operation is *)
(* an operator from the driver's fields (self) and its argument to the new *)
(* fields, the returned value and, for apply_effect, the byte reports.     *)
(***************************************************************************)
\* SimagicDriver::new
SimagicNew == [current_effect_slot |-> 1, initialized |-> FALSE]

\* variants of the match of apply_effect: which Constant effects send a
\* magnitude report, whether Periodic effects send one, and whether the
\* condition report comes first
VariantReports(self, effect, constant_sends(_), periodic_sends, condition_first) ==
    LET effect_type   == SimagicEffectType(effect)
        effect_report == create_set_effect_report(effect_type, effect.params.duration)
        start_report  == create_start_effect_report(effect_type, self.current_effect_slot)
    IN  CASE effect.type = "Constant" ->
                (IF constant_sends(effect.force.magnitude)
                 THEN <<create_set_constant_magnitude_report(self.current_effect_slot,
                                                             effect.force.magnitude)>>
                 ELSE <<>>)
                \o <<effect_report, start_report>>
          [] effect.type = "Periodic" ->
                (IF periodic_sends
                 THEN <<create_set_constant_magnitude_report(self.current_effect_slot,
                                                             effect.effect.magnitude)>>
                 ELSE <<>>)
                \o <<effect_report, start_report>>
          [] effect.type = "Ramp" -> <<effect_report, start_report>>
          [] effect.type = "Condition" ->
                LET condition_report ==
                        create_set_condition_params_report(effect_type, effect.effect.x_axis)
                IN  IF condition_first
                    THEN <<condition_report, effect_report, start_report>>
                    ELSE <<effect_report, condition_report, start_report>>
SendsUnlessZeroOrMinusOne(m) == m # 0 /\ m # -1
SendsAboveOne(m) == m > 1 \/ m < -1
\* the magnitude report is also skipped at magnitude 1
MutSkipsMagnitudeOne(self, effect) ==
    VariantReports(self, effect, SendsAboveOne, FALSE, TRUE)
\* Periodic effects send a magnitude report first
MutPeriodicSendsMagnitude(self, effect) ==
    VariantReports(self, effect, SendsUnlessZeroOrMinusOne, TRUE, TRUE)
\* the condition report is sent after SetEffect
MutConditionAfterSetEffect(self, effect) ==
    VariantReports(self, effect, SendsUnlessZeroOrMinusOne, FALSE, FALSE)

\* reports in which an effect with a start delay is not started
MutDelayedEffectNotStarted(self, effect) ==
    LET reports == VariantReports(self, effect, SendsUnlessZeroOrMinusOne, FALSE, TRUE)
    IN  IF effect.params.start_delay > 0
        THEN SubSeq(reports, 1, Len(reports) - 1)
        ELSE reports

\* the match of apply_effect: the reports pushed, in order
simagic_generate_reports(self, effect) ==
    LET effect_type   == SimagicEffectType(effect)
        effect_report == create_set_effect_report(effect_type, effect.params.duration)
        start_report  == create_start_effect_report(effect_type, self.current_effect_slot)
    IN  CASE effect.type = "Constant" ->
                (IF effect.force.magnitude # 0 /\ effect.force.magnitude # -1
                 THEN <<create_set_constant_magnitude_report(self.current_effect_slot,
                                                             effect.force.magnitude)>>
                 ELSE <<>>)
                \o <<effect_report, start_report>>
          [] effect.type = "Periodic" -> <<effect_report, start_report>>
          [] effect.type = "Ramp" -> <<effect_report, start_report>>
          [] effect.type = "Condition" ->
                <<create_set_condition_params_report(effect_type, effect.effect.x_axis),
                  effect_report, start_report>>

\* apply_effect without the check of initialized
MutApplyUnchecked(self, effect) ==
    LET reports == simagic_generate_reports(self, effect)
    IN  [self |-> self,
         result |-> Ok([i \in 1..Len(reports) |-> format_report(reports[i])]),
         reports |-> reports, waited |-> 0]
\* apply_effect that moves on to the next effect slot after every call
MutApplyNextSlot(self, effect) ==
    IF ~self.initialized
    THEN [self |-> self, result |-> Err("DeviceError"), reports |-> <<>>, waited |-> 0]
    ELSE LET reports == simagic_generate_reports(self, effect)
         IN  [self |-> [self EXCEPT !.current_effect_slot = (self.current_effect_slot % 4) + 1],
              result |-> Ok([i \in 1..Len(reports) |-> format_report(reports[i])]),
              reports |-> reports, waited |-> 0]

\* SimagicDriver::apply_effect
simagic_apply_effect(self, effect) ==
    IF ~self.initialized
    THEN [self |-> self, result |-> Err("DeviceError"), reports |-> <<>>, waited |-> 0]
    ELSE LET reports == simagic_generate_reports(self, effect)
         IN  [self |-> self,
              result |-> Ok([i \in 1..Len(reports) |-> format_report(reports[i])]),
              reports |-> reports, waited |-> 0]

\* SimagicDriver::initialize
simagic_initialize(self) ==
    [self |-> [self EXCEPT !.initialized = TRUE], result |-> Ok(Unit)]

\* SimagicDriver::stop_all_effects
simagic_stop_all_effects(self) == [self |-> self, result |-> Ok(Unit)]

\* SimagicDriver::shutdown
simagic_shutdown(self) ==
    LET stopped == simagic_stop_all_effects(self)
    IN  IF ~stopped.result.ok THEN stopped
        ELSE [self |-> [stopped.self EXCEPT !.initialized = FALSE], result |-> Ok(Unit)]

SimSelf == [current_effect_slot |-> current_effect_slot, initialized |-> sim_initialized]

InitSimagic ==
    /\ current_effect_slot = SimagicNew.current_effect_slot
    /\ sim_initialized = SimagicNew.initialized
    /\ sim_op = "new"
    /\ sim_effect = None
    /\ generated_reports = <<>>
    /\ sim_result = None
    /\ sim_waited = 0
    /\ sim_pre = SimagicNew

SimReturn(op, out) ==
    /\ current_effect_slot' = out.self.current_effect_slot
    /\ sim_initialized' = out.self.initialized
    /\ sim_op' = op
    /\ sim_result' = out.result
    /\ sim_pre' = SimSelf

SimInitialize ==
    /\ driver = "SIMAGIC"
    /\ SimReturn("initialize", simagic_initialize(SimSelf))
    /\ sim_effect' = None /\ generated_reports' = <<>> /\ sim_waited' = 0

SimApplyEffect ==
    /\ driver = "SIMAGIC"
    /\ \E effect \in Effects :
         LET out == simagic_apply_effect(SimSelf, effect)
         IN  /\ SimReturn("apply_effect", out)
             /\ sim_effect' = effect
             /\ generated_reports' = out.reports
             /\ sim_waited' = out.waited

SimStopAllEffects ==
    /\ driver = "SIMAGIC"
    /\ SimReturn("stop_all_effects", simagic_stop_all_effects(SimSelf))
    /\ sim_effect' = None /\ generated_reports' = <<>> /\ sim_waited' = 0

SimShutdown ==
    /\ driver = "SIMAGIC"
    /\ SimReturn("shutdown", simagic_shutdown(SimSelf))
    /\ sim_effect' = None /\ generated_reports' = <<>> /\ sim_waited' = 0

(***************************************************************************)
(* SdlDriver, the haptic device behind it, and its UsbMonitor.             *)
(***************************************************************************)
VARIABLES
    \* SdlDriver
    haptic,               \* SdlDriver.haptic: "null" or the open device
    current_effect_id,    \* SdlDriver.current_effect_id: None or Some(id)
    sdl_initialized,      \* SdlDriver.initialized
    \* UsbMonitor
    capture_thread,       \* UsbMonitor.capture_thread is Some
    capture_process,      \* UsbMonitor.capture_process is Some
    running,              \* UsbMonitor.running
    packets,              \* UsbMonitor.packets: the packet queue
    \* the environment
    reader_alive,         \* the reader loop of the capture thread has not returned
    wire,                 \* decodable records in the capture pipe, not yet read
    emitted,              \* packets put on the wire so far (their timestamps)
    dev_effects,          \* the haptic device: id -> native record of each live effect
    \* the caller's position in apply_effect and what it observed
    sdl_pc,               \* "idle", or the next step of the running apply_effect
    sdl_effect,           \* the effect of the current or last apply_effect
    effect_id,            \* apply_effect's local effect_id
    sdl_op,               \* the last FfbDriver operation that returned
    sdl_result,           \* the value it returned
    sdl_waited,           \* milliseconds the current or last apply_effect slept
    sdl_pre,              \* the driver's fields when the last operation began
    window,               \* packets queued since the pre-drain of this apply_effect
    sdl_entry,            \* the packet queue when this apply_effect was called
    sdl_drained,          \* apply_effect's local packets: what its post-drain took
    sdl_returned_prev,    \* the packets the post-drains of earlier calls took
    stop_sent,            \* ghost: the reports on the wire that this call's stop of
                          \* the previous effect caused
    sdl_left,             \* ghost: the timestamps of the packets that were in the
                          \* queue when the last apply_effect returned an error
                          \* after its pre-drain, kept until the operation after
                          \* the next apply_effect that returns Ok
    native_calls,         \* the calls the current or last operation made, in order
    monitor_state         \* the UsbMonitor's lifecycle: "Idle", "Capturing", "Stopped"

sdlVars == <<haptic, current_effect_id, sdl_initialized, capture_thread,
             capture_process, running, packets, reader_alive, wire, emitted,
             dev_effects, sdl_pc, sdl_effect, effect_id, sdl_op, sdl_result,
             sdl_waited, sdl_pre, window, sdl_entry, sdl_drained, sdl_returned_prev,
             stop_sent, sdl_left, native_calls, monitor_state>>

\* the observations that only the entry and the post-drain of apply_effect touch
callHistory == <<sdl_entry, sdl_drained, sdl_returned_prev>>
\* the elements of a sequence
Range(seq) == {seq[i] : i \in DOMAIN seq}
\* a call an operation makes into SDL, the UsbMonitor or the thread library,
\* with its numeric argument where it has one (play count, milliseconds)
NativeCall(fn, arg) == [fn |-> fn, arg |-> arg]

\* the payloads seen on the wire: one that starts with a report id of the FFB
\* set, and a short one that does not
PayloadValues == {<<1, 10>>, <<128, 0>>}

\* the effects the caller of the SdlDriver applies
SdlEffects ==
    {e \in ConstantEffects :
        /\ e.force.magnitude = 5000
        /\ e.params.duration \in {0, 1000}
        /\ e.params.start_delay = 0}
    \cup {e \in ConditionEffects : e.params.duration = 1000 /\ e.effect.condition_type = "Damper"}

\* the fields of the driver and its monitor that an operation can change
SdlSelf ==
    [haptic |-> haptic, current_effect_id |-> current_effect_id,
     initialized |-> sdl_initialized, capture_thread |-> capture_thread,
     capture_process |-> capture_process, running |-> running]

\* SdlDriver::new, UsbMonitor::new
InitSdl ==
    /\ haptic = "null"
    /\ current_effect_id = None
    /\ sdl_initialized = FALSE
    /\ capture_thread = FALSE
    /\ capture_process = FALSE
    /\ running = FALSE
    /\ packets = <<>>
    /\ reader_alive = FALSE
    /\ wire = <<>>
    /\ emitted = 0
    /\ dev_effects = <<>>
    /\ sdl_pc = "idle"
    /\ sdl_effect = None
    /\ effect_id = None
    /\ sdl_op = "new"
    /\ sdl_result = None
    /\ sdl_waited = 0
    /\ sdl_pre = [haptic |-> "null", current_effect_id |-> None, initialized |-> FALSE,
                  capture_thread |-> FALSE, capture_process |-> FALSE, running |-> FALSE]
    /\ window = <<>>
    /\ sdl_entry = <<>>
    /\ sdl_drained = <<>>
    /\ sdl_returned_prev = {}
    /\ stop_sent = <<>>
    /\ sdl_left = {}
    /\ native_calls = <<>>
    /\ monitor_state = "Idle"

\* the packets left by a failed apply_effect are followed through the next
\* apply_effect that returns Ok
KeptLeft ==
    IF sdl_op = "apply_effect" /\ sdl_pc = "idle" /\ sdl_result.ok THEN {} ELSE sdl_left

SdlReturn(op, result) ==
    /\ sdl_op' = op
    /\ sdl_result' = result
    /\ sdl_pc' = "idle"

\* the observations of the last apply_effect are dropped when another
\* operation is called
SdlForgetCall ==
    /\ sdl_effect' = None
    /\ effect_id' = None
    /\ sdl_waited' = 0
    /\ window' = <<>>
    /\ sdl_entry' = <<>>
    /\ sdl_drained' = <<>>
    /\ sdl_returned_prev' = sdl_returned_prev \cup Range(sdl_drained)
    /\ stop_sent' = <<>>
    /\ sdl_left' = KeptLeft

\* a destroy that leaves the effect on the device
MutDestroyNothing(effects, id) == effects

\* SDL_DestroyHapticEffect: the device forgets the effect
DestroyHapticEffect(effects, id) == [i \in DOMAIN effects \ {id} |-> effects[i]]
\* SDL_CreateHapticEffect: the id of the new effect, the lowest free one
NewEffectId(effects) == CHOOSE i \in 0 .. Cardinality(DOMAIN effects) : i \notin DOMAIN effects
CreateHapticEffect(effects, id, native) ==
    [i \in DOMAIN effects \cup {id} |-> IF i = id THEN native ELSE effects[i]]

(***************************************************************************)
(* The environment: USB traffic reaching the capture process, and the      *)
(* reader loop of the capture thread decoding it into the queue.           *)
(***************************************************************************)
\* a host-to-device transfer is captured: its record is written to the pipe
WireEmit ==
    /\ UNCHANGED <<sdl_left, stop_sent, callHistory, native_calls, monitor_state>>
    /\ driver = "SDL"
    /\ capture_process
    /\ emitted < MaxEmit
    /\ \E data \in PayloadValues, endpoint \in {1} :
         wire' = Append(wire, UsbPacket(Duration(emitted + 1, 0), "HostToDevice",
                                        endpoint, data))
    /\ emitted' = emitted + 1
    /\ UNCHANGED <<haptic, current_effect_id, sdl_initialized, capture_thread,
                   capture_process, running, packets, reader_alive, dev_effects,
                   sdl_pc, sdl_effect, effect_id, sdl_op, sdl_result, sdl_waited,
                   sdl_pre, window>>

\* the report that SDL_StopHapticEffect makes the device driver send is
\* captured: its record is written to the pipe some time after the stop
StopReportCaptured ==
    /\ UNCHANGED <<sdl_left, callHistory, native_calls, monitor_state>>
    /\ driver = "SDL"
    /\ sdl_pc \in {"create", "run", "sleep", "post_drain"}
    /\ sdl_pre.current_effect_id # None
    /\ stop_sent = <<>>
    /\ capture_process
    /\ emitted < MaxEmit
    /\ \E data \in PayloadValues :
         LET report == UsbPacket(Duration(emitted + 1, 0), "HostToDevice", 1, data)
         IN  /\ wire' = Append(wire, report)
             /\ stop_sent' = <<report>>
    /\ emitted' = emitted + 1
    /\ UNCHANGED <<haptic, current_effect_id, sdl_initialized, capture_thread,
                   capture_process, running, packets, reader_alive, dev_effects,
                   sdl_pc, sdl_effect, effect_id, sdl_op, sdl_result, sdl_waited,
                   sdl_pre, window>>

\* linux_pcap_reader_loop / pcap_reader_loop: one record is read and decoded,
\* and packets.lock().unwrap().push(usb_packet)
CapturePush ==
    /\ UNCHANGED <<sdl_left, stop_sent, callHistory, native_calls, monitor_state>>
    /\ driver = "SDL"
    /\ reader_alive /\ running
    /\ wire # <<>>
    /\ packets' = Append(packets, Head(wire))
    /\ wire' = Tail(wire)
    /\ window' = IF sdl_pc \in {"stop_prev", "create", "run", "sleep", "post_drain"}
                 THEN Append(window, Head(wire)) ELSE window
    /\ UNCHANGED <<haptic, current_effect_id, sdl_initialized, capture_thread,
                   capture_process, running, reader_alive, emitted, dev_effects,
                   sdl_pc, sdl_effect, effect_id, sdl_op, sdl_result, sdl_waited,
                   sdl_pre>>

\* the reader loop returns by itself: Ok(0) (the capture process exited), a
\* read error, or an invalid global header
ReaderExit ==
    /\ UNCHANGED <<sdl_left, stop_sent, callHistory, native_calls, monitor_state>>
    /\ driver = "SDL"
    /\ reader_alive
    /\ reader_alive' = FALSE
    /\ UNCHANGED <<haptic, current_effect_id, sdl_initialized, capture_thread,
                   capture_process, running, packets, wire, emitted, dev_effects,
                   sdl_pc, sdl_effect, effect_id, sdl_op, sdl_result, sdl_waited,
                   sdl_pre, window>>

(***************************************************************************)
(* sdl_driver.rs: impl FfbDriver for SdlDriver.                            *)
(***************************************************************************)
\* if let Some(id) = self.current_effect_id.take(): the calls that stop it
stop_effect_calls(id) ==
    IF id = None THEN <<>>
    ELSE <<NativeCall("SDL_StopHapticEffect", 0), NativeCall("SDL_DestroyHapticEffect", 0)>>

\* how an initialize can go: start_capture fails, SDL_Init fails, no haptic
\* device is listed, the listed joystick's haptic cannot be opened, or all succeed
InitializeOutcomes ==
    {"capture_failed", "sdl_init_failed", "device_not_found", "open_failed", "ok"}

\* an initialize that tries start_capture a second time when it failed
MutInitializeRetries(outcome) ==
    IF outcome = "capture_failed"
    THEN <<NativeCall("start_capture", 0), NativeCall("start_capture", 0)>>
    ELSE <<NativeCall("start_capture", 0), NativeCall("SDL_Init", 0)>>

\* the calls of SdlDriver::initialize up to its return: `?` leaves at the
\* first failure
initialize_calls(outcome) ==
    <<NativeCall("start_capture", 0)>>
    \o (IF outcome = "capture_failed" THEN <<>> ELSE <<NativeCall("SDL_Init", 0)>>)
    \o (IF outcome \in {"open_failed", "ok"}
        THEN <<NativeCall("SDL_OpenHapticFromJoystick", 0)>> ELSE <<>>)

\* SdlDriver::initialize, with UsbMonitor::start_capture.  Callers shut a
\* driver down before they initialize it again.
SdlInitialize ==
    /\ driver = "SDL"
    /\ sdl_pc = "idle"
    /\ ~sdl_initialized /\ ~capture_thread
    /\ sdl_pre' = SdlSelf
    /\ \E outcome \in InitializeOutcomes :
         /\ IF outcome = "capture_failed"
            THEN UNCHANGED <<running, capture_process, capture_thread, reader_alive,
                             monitor_state>>
            ELSE /\ running' = TRUE
                 /\ capture_process' = TRUE
                 /\ capture_thread' = TRUE
                 /\ reader_alive' = TRUE
                 /\ monitor_state' = "Capturing"
         /\ IF outcome = "ok"
            THEN haptic' = "haptic" /\ sdl_initialized' = TRUE
            ELSE UNCHANGED <<haptic, sdl_initialized>>
         /\ native_calls' = initialize_calls(outcome)
         /\ SdlReturn("initialize",
               CASE outcome = "ok" -> Ok(Unit)
                 [] outcome = "device_not_found" -> Err("DeviceNotFound")
                 [] OTHER -> Err("InitializationFailed"))
    /\ SdlForgetCall
    /\ UNCHANGED <<current_effect_id, packets, wire, emitted, dev_effects>>

\* apply_effect is entered: the check of initialized and haptic
SdlApplyEffect ==
    /\ driver = "SDL"
    /\ sdl_pc = "idle"
    /\ sdl_pre' = SdlSelf
    /\ \E effect \in SdlEffects : sdl_effect' = effect
    /\ sdl_waited' = 0
    /\ window' = <<>>
    /\ effect_id' = None
    /\ sdl_entry' = packets
    /\ native_calls' = <<>>
    /\ UNCHANGED monitor_state
    /\ sdl_drained' = <<>>
    /\ sdl_returned_prev' = sdl_returned_prev \cup Range(sdl_drained)
    /\ stop_sent' = <<>>
    /\ sdl_left' = KeptLeft
    /\ IF ~sdl_initialized \/ haptic = "null"
       THEN SdlReturn("apply_effect", Err("DeviceError"))
       ELSE /\ sdl_pc' = "pre_drain"
            /\ UNCHANGED <<sdl_op, sdl_result>>
    /\ UNCHANGED <<haptic, current_effect_id, sdl_initialized, capture_thread,
                   capture_process, running, packets, reader_alive, wire, emitted,
                   dev_effects>>

\* let _ = self.usb_monitor.get_packets();
SdlPreDrain ==
    /\ UNCHANGED <<sdl_left, stop_sent, callHistory, monitor_state>>
    /\ sdl_pc = "pre_drain"
    /\ native_calls' = Append(native_calls, NativeCall("get_packets", 0))
    /\ packets' = get_packets(packets).packets
    /\ window' = <<>>
    /\ sdl_pc' = "stop_prev"
    /\ UNCHANGED <<haptic, current_effect_id, sdl_initialized, capture_thread,
                   capture_process, running, reader_alive, wire, emitted,
                   dev_effects, sdl_effect, effect_id, sdl_op, sdl_result,
                   sdl_waited, sdl_pre>>

\* a stop of the previous effect that keeps it recorded as current
MutStopPreviousKeepsRecord ==
    /\ UNCHANGED <<sdl_left, stop_sent, callHistory, monitor_state>>
    /\ sdl_pc = "stop_prev"
    /\ native_calls' = native_calls \o stop_effect_calls(current_effect_id)
    /\ dev_effects' = IF current_effect_id = None THEN dev_effects
                      ELSE DestroyHapticEffect(dev_effects, current_effect_id.some)
    /\ sdl_pc' = "create"
    /\ UNCHANGED <<haptic, sdl_initialized, capture_thread, capture_process,
                   running, packets, reader_alive, wire, emitted, sdl_effect,
                   effect_id, sdl_op, sdl_result, sdl_waited, sdl_pre,
                   window, current_effect_id>>

\* if let Some(id) = self.current_effect_id.take(): stop and destroy it
SdlStopPrevious ==
    /\ UNCHANGED <<sdl_left, stop_sent, callHistory, monitor_state>>
    /\ sdl_pc = "stop_prev"
    /\ native_calls' = native_calls \o stop_effect_calls(current_effect_id)
    /\ current_effect_id' = None
    /\ dev_effects' = IF current_effect_id = None THEN dev_effects
                      ELSE DestroyHapticEffect(dev_effects, current_effect_id.some)
    /\ sdl_pc' = "create"
    /\ UNCHANGED <<haptic, sdl_initialized, capture_thread, capture_process,
                   running, packets, reader_alive, wire, emitted, sdl_effect,
                   effect_id, sdl_op, sdl_result, sdl_waited, sdl_pre,
                   window>>

\* a creation whose failure empties the packet queue before it returns
MutCreateFailureDrains ==
    /\ UNCHANGED <<stop_sent, callHistory, monitor_state>>
    /\ sdl_pc = "create"
    /\ native_calls' = Append(native_calls, NativeCall("SDL_CreateHapticEffect", 0))
    /\ \/ /\ effect_id' = Some(NewEffectId(dev_effects))
          /\ dev_effects' = CreateHapticEffect(dev_effects, NewEffectId(dev_effects),
                                               sdl_effect_of(sdl_effect))
          /\ sdl_pc' = "run"
          /\ UNCHANGED <<sdl_op, sdl_result, sdl_left, packets>>
       \/ /\ SdlReturn("apply_effect", Err("EffectCreationFailed"))
          /\ sdl_left' = {packets[i].timestamp : i \in DOMAIN packets}
          /\ packets' = get_packets(packets).packets
          /\ UNCHANGED <<effect_id, dev_effects>>
    /\ UNCHANGED <<haptic, current_effect_id, sdl_initialized, capture_thread,
                   capture_process, running, reader_alive, wire, emitted,
                   sdl_effect, sdl_waited, sdl_pre, window>>

\* the native record is built and SDL_CreateHapticEffect is called
SdlCreate ==
    /\ UNCHANGED <<stop_sent, callHistory, monitor_state>>
    /\ sdl_pc = "create"
    /\ native_calls' = Append(native_calls, NativeCall("SDL_CreateHapticEffect", 0))
    /\ \/ /\ effect_id' = Some(NewEffectId(dev_effects))
          /\ dev_effects' = CreateHapticEffect(dev_effects, NewEffectId(dev_effects),
                                               sdl_effect_of(sdl_effect))
          /\ sdl_pc' = "run"
          /\ UNCHANGED <<sdl_op, sdl_result, sdl_left>>
       \/ \* effect_id.0 < 0
          /\ SdlReturn("apply_effect", Err("EffectCreationFailed"))
          /\ sdl_left' = {packets[i].timestamp : i \in DOMAIN packets}
          /\ UNCHANGED <<effect_id, dev_effects>>
    /\ UNCHANGED <<haptic, current_effect_id, sdl_initialized, capture_thread,
                   capture_process, running, packets, reader_alive, wire, emitted,
                   sdl_effect, sdl_waited, sdl_pre, window>>

\* a start whose failure leaves the created effect on the device as the
\* current one
MutRunKeepsFailedEffect ==
    /\ UNCHANGED <<stop_sent, callHistory, monitor_state>>
    /\ sdl_pc = "run"
    /\ current_effect_id' = effect_id
    /\ native_calls' = Append(native_calls, NativeCall("SDL_RunHapticEffect", 1))
    /\ \/ /\ sdl_pc' = "sleep"
          /\ UNCHANGED <<sdl_op, sdl_result, sdl_left>>
       \/ /\ SdlReturn("apply_effect", Err("EffectPlaybackFailed"))
          /\ sdl_left' = {packets[i].timestamp : i \in DOMAIN packets}
    /\ UNCHANGED <<haptic, sdl_initialized, capture_thread, capture_process,
                   running, packets, reader_alive, wire, emitted, sdl_effect,
                   effect_id, sdl_waited, sdl_pre, window, dev_effects>>

\* SDL_RunHapticEffect(self.haptic, effect_id, 1)
SdlRun ==
    /\ UNCHANGED <<stop_sent, callHistory, monitor_state>>
    /\ sdl_pc = "run"
    /\ \/ /\ current_effect_id' = effect_id
          /\ native_calls' = Append(native_calls, NativeCall("SDL_RunHapticEffect", 1))
          /\ sdl_pc' = "sleep"
          /\ UNCHANGED <<dev_effects, sdl_op, sdl_result, sdl_left>>
       \/ /\ sdl_left' = {packets[i].timestamp : i \in DOMAIN packets}
          /\ dev_effects' = DestroyHapticEffect(dev_effects, effect_id.some)
          /\ native_calls' = native_calls \o <<NativeCall("SDL_RunHapticEffect", 1),
                                                NativeCall("SDL_DestroyHapticEffect", 0)>>
          /\ SdlReturn("apply_effect", Err("EffectPlaybackFailed"))
          /\ UNCHANGED current_effect_id
    /\ UNCHANGED <<haptic, sdl_initialized, capture_thread, capture_process,
                   running, packets, reader_alive, wire, emitted, sdl_effect,
                   effect_id, sdl_waited, sdl_pre, window>>

\* if duration > 0 { thread::sleep(Duration::from_millis(duration)) }
SdlSleep ==
    /\ UNCHANGED <<sdl_left, stop_sent, callHistory, monitor_state>>
    /\ sdl_pc = "sleep"
    /\ native_calls' = IF duration(sdl_effect) > 0
                       THEN Append(native_calls, NativeCall("sleep", duration(sdl_effect)))
                       ELSE native_calls
    /\ sdl_waited' = IF duration(sdl_effect) > 0 THEN duration(sdl_effect) ELSE 0
    /\ sdl_pc' = "post_drain"
    /\ UNCHANGED <<haptic, current_effect_id, sdl_initialized, capture_thread,
                   capture_process, running, packets, reader_alive, wire, emitted,
                   dev_effects, sdl_effect, effect_id, sdl_op, sdl_result, sdl_pre, window>>

\* the second get_packets, the filter and the formatting; apply_effect returns
SdlPostDrain ==
    /\ sdl_pc = "post_drain"
    /\ sdl_drained' = get_packets(packets).result
    /\ UNCHANGED <<sdl_entry, sdl_returned_prev, stop_sent, sdl_left, monitor_state>>
    /\ native_calls' = Append(native_calls, NativeCall("get_packets", 0))
    /\ packets' = get_packets(packets).packets
    /\ SdlReturn("apply_effect", Ok(captured_packets(sdl_drained')))
    /\ UNCHANGED <<haptic, current_effect_id, sdl_initialized, capture_thread,
                   capture_process, running, reader_alive, wire, emitted,
                   dev_effects, sdl_effect, effect_id, sdl_waited, sdl_pre, window>>

\* the calls of UsbMonitor::stop_capture: the process is killed and waited
\* for if the monitor holds one, the thread is joined if it holds one
stop_capture_calls(process, thread) ==
    <<NativeCall("stop_capture", 0)>>
    \o (IF process THEN <<NativeCall("Child::kill", 0), NativeCall("Child::wait", 0)>>
        ELSE <<>>)
    \o (IF thread THEN <<NativeCall("JoinHandle::join", 0)>> ELSE <<>>)

\* the calls of SdlDriver::stop_all_effects
stop_all_effects_calls(id, h) ==
    IF h = "null" THEN <<>>
    ELSE stop_effect_calls(id) \o <<NativeCall("SDL_StopHapticEffects", 0)>>

\* a stop_all_effects that returns Ok and stops nothing
MutStopNothing(id, effects, h) ==
    [current_effect_id |-> id, dev_effects |-> effects, result |-> Ok(Unit)]

\* SdlDriver::stop_all_effects, on the driver's fields and the device
sdl_stop_all_effects(id, effects, h) ==
    IF h = "null" THEN [current_effect_id |-> id, dev_effects |-> effects, result |-> Ok(Unit)]
    ELSE [current_effect_id |-> None,
          dev_effects |-> IF id = None THEN effects ELSE DestroyHapticEffect(effects, id.some),
          result |-> Ok(Unit)]

SdlStopAllEffects ==
    /\ driver = "SDL"
    /\ sdl_pc = "idle"
    /\ sdl_pre' = SdlSelf
    /\ LET out == sdl_stop_all_effects(current_effect_id, dev_effects, haptic)
       IN  /\ current_effect_id' = out.current_effect_id
           /\ dev_effects' = out.dev_effects
           /\ SdlReturn("stop_all_effects", out.result)
    /\ native_calls' = stop_all_effects_calls(current_effect_id, haptic)
    /\ UNCHANGED monitor_state
    /\ SdlForgetCall
    /\ UNCHANGED <<haptic, sdl_initialized, capture_thread, capture_process,
                   running, packets, reader_alive, wire, emitted>>

\* SdlDriver::shutdown, with UsbMonitor::stop_capture: the flag is cleared, the
\* capture process is killed and waited for, and the reader thread is joined;
\* the chunk the reader was reading when the pipe closed may still be decoded
SdlShutdown ==
    /\ driver = "SDL"
    /\ sdl_pc = "idle"
    /\ sdl_pre' = SdlSelf
    /\ LET out == sdl_stop_all_effects(current_effect_id, dev_effects, haptic)
       IN  /\ current_effect_id' = out.current_effect_id
           /\ out.result.ok
    /\ running' = FALSE
    /\ capture_process' = FALSE
    /\ capture_thread' = FALSE
    /\ reader_alive' = FALSE
    /\ \E k \in 0 .. (IF reader_alive /\ capture_thread THEN Len(wire) ELSE 0) :
         packets' = packets \o SubSeq(wire, 1, k)
    /\ wire' = <<>>
    /\ haptic' = "null"
    /\ dev_effects' = <<>>
    /\ sdl_initialized' = FALSE
    /\ monitor_state' = IF capture_process \/ capture_thread THEN "Stopped"
                        ELSE monitor_state
    /\ native_calls' = stop_all_effects_calls(current_effect_id, haptic)
                       \o stop_capture_calls(capture_process, capture_thread)
                       \o (IF haptic = "null" THEN <<>> ELSE <<NativeCall("SDL_CloseHaptic", 0)>>)
                       \o <<NativeCall("SDL_Quit", 0)>>
    /\ SdlReturn("shutdown", Ok(Unit))
    /\ SdlForgetCall
    /\ UNCHANGED emitted

(***************************************************************************)
(* usb_monitor.rs at byte level: a UsbMonitor after start_capture, the     *)
(* capture process writing rd_stream to its pipe, the reader loop of the   *)
(* capture thread, and the owner calling get_packets and stop_capture.     *)
(***************************************************************************)
VARIABLES
    rd_platform,   \* "linux" or "windows": which reader loop is compiled in
    rd_stream,     \* the bytes the capture process writes
    rd_end,        \* how many of them reach the pipe
    rd_pos,        \* how many of them the reader has read
    rd_child,      \* the capture process is alive
    rd_running,    \* UsbMonitor.running
    rd_packets,    \* UsbMonitor.packets
    rd_pc,         \* the reader loop: "check", "read", "parse", "exited"
    pcap_buffer,   \* the reader loop's local pcap_buffer
    header_read,   \* the reader loop's local header_read
    rd_owner,      \* the owner: "idle", "joining" (inside stop_capture), "stopped"
    rd_chunks,     \* ghost: reads that returned data, counted up to MaxChunks
    rd_pushed,     \* ghost: every packet pushed so far, in order
    rd_fresh,      \* ghost: the packets pushed since the last get_packets
    rd_expected,   \* ghost: rd_fresh when get_packets was last called
    rd_got,        \* what the last get_packets returned
    rd_gets,       \* ghost: get_packets calls since the last push, up to 2
    rd_returned    \* ghost: what all get_packets calls returned, one after the other

readerVars == <<rd_platform, rd_stream, rd_end, rd_pos, rd_child, rd_running,
                rd_packets, rd_pc, pcap_buffer, header_read, rd_owner, rd_chunks,
                rd_pushed, rd_fresh, rd_expected, rd_got, rd_gets, rd_returned>>

\* vec![0u8; 65536]: the most one read returns
READ_BUFFER_LEN == 65536

InitReaderOn(st) ==
    /\ rd_platform = st.platform
    /\ rd_stream = st.bytes
    /\ rd_end = Len(st.bytes)
    /\ rd_pos = 0
    /\ rd_child = TRUE
    /\ rd_running = TRUE
    /\ rd_packets = <<>>
    /\ rd_pc = "check"
    /\ pcap_buffer = <<>>
    /\ header_read = FALSE
    /\ rd_owner = "idle"
    /\ rd_chunks = 0
    /\ rd_pushed = <<>>
    /\ rd_fresh = <<>>
    /\ rd_expected = <<>>
    /\ rd_got = <<>>
    /\ rd_gets = 0
    /\ rd_returned = <<>>

\* the loop condition: while *running.lock().unwrap()
PcapReaderCheck ==
    /\ rd_pc = "check"
    /\ rd_pc' = IF rd_running THEN "read" ELSE "exited"
    /\ UNCHANGED <<rd_returned, rd_platform, rd_stream, rd_end, rd_pos, rd_child, rd_running,
                   rd_packets, pcap_buffer, header_read, rd_owner, rd_chunks,
                   rd_pushed, rd_fresh, rd_expected, rd_got, rd_gets>>

\* reader.read returns Ok(n), n > 0: any part of what the pipe holds
PcapReaderRead ==
    /\ rd_pc = "read"
    /\ \E n \in 1..Min(READ_BUFFER_LEN, rd_end - rd_pos) :
          LET rc == read_chunk(pcap_buffer, header_read,
                               SubSeq(rd_stream, rd_pos + 1, rd_pos + n))
          IN  /\ rd_pos' = rd_pos + n
              /\ pcap_buffer' = rc.pcap_buffer
              /\ header_read' = rc.header_read
              /\ rd_pc' = IF rc.break THEN "exited" ELSE "parse"
    /\ rd_chunks' = Min(rd_chunks + 1, MaxChunks)
    /\ UNCHANGED <<rd_returned, rd_platform, rd_stream, rd_end, rd_child, rd_running, rd_packets,
                   rd_owner, rd_pushed, rd_fresh, rd_expected, rd_got, rd_gets>>

\* reader.read returns Ok(0): the pipe is empty and its writer is gone
PcapReaderEof ==
    /\ rd_pc = "read"
    /\ rd_pos = rd_end
    /\ ~rd_child
    /\ rd_pc' = "exited"
    /\ UNCHANGED <<rd_returned, rd_platform, rd_stream, rd_end, rd_pos, rd_child, rd_running,
                   rd_packets, pcap_buffer, header_read, rd_owner, rd_chunks,
                   rd_pushed, rd_fresh, rd_expected, rd_got, rd_gets>>

\* one test of the inner while, and one pass through its body
PcapReaderParse ==
    /\ rd_pc = "parse"
    /\ LET one == parse_one(rd_platform, pcap_buffer)
       IN  /\ pcap_buffer' = one.pcap_buffer
           /\ rd_packets' = rd_packets \o one.pushed
           /\ rd_pushed' = rd_pushed \o one.pushed
           /\ rd_fresh' = rd_fresh \o one.pushed
           /\ rd_gets' = IF one.pushed = <<>> THEN rd_gets ELSE 0
           /\ rd_pc' = IF one.more THEN "parse" ELSE "check"
    /\ UNCHANGED <<rd_returned, rd_platform, rd_stream, rd_end, rd_pos, rd_child, rd_running,
                   header_read, rd_owner, rd_chunks, rd_expected, rd_got>>

\* the capture process ends by itself
ChildExit ==
    /\ rd_child
    /\ rd_child' = FALSE
    /\ UNCHANGED <<rd_returned, rd_platform, rd_stream, rd_end, rd_pos, rd_running, rd_packets,
                   rd_pc, pcap_buffer, header_read, rd_owner, rd_chunks,
                   rd_pushed, rd_fresh, rd_expected, rd_got, rd_gets>>

\* UsbMonitor::get_packets, called by the owner
MonitorGetPackets ==
    /\ rd_owner = "idle"
    /\ rd_got' = get_packets(rd_packets).result
    /\ rd_returned' = rd_returned \o get_packets(rd_packets).result
    /\ rd_packets' = get_packets(rd_packets).packets
    /\ rd_expected' = rd_fresh
    /\ rd_fresh' = <<>>
    /\ rd_gets' = Min(rd_gets + 1, 2)
    /\ UNCHANGED <<rd_platform, rd_stream, rd_end, rd_pos, rd_child, rd_running,
                   rd_pc, pcap_buffer, header_read, rd_owner, rd_chunks, rd_pushed>>

\* a stop_capture that clears the flag and leaves the capture process alive
MutStopLeavesProcess ==
    /\ rd_owner = "idle"
    /\ rd_running' = FALSE
    /\ rd_owner' = "joining"
    /\ UNCHANGED <<rd_returned, rd_platform, rd_stream, rd_pos, rd_packets, rd_pc, pcap_buffer,
                   header_read, rd_chunks, rd_pushed, rd_fresh, rd_expected,
                   rd_got, rd_gets, rd_child, rd_end>>

\* UsbMonitor::stop_capture up to the join: running is cleared, the capture
\* process is killed and reaped.  What it had not written yet is lost.
MonitorStopCapture ==
    /\ rd_owner = "idle"
    /\ rd_running' = FALSE
    /\ rd_child' = FALSE
    /\ rd_end' \in {rd_pos, rd_end}
    /\ rd_owner' = "joining"
    /\ UNCHANGED <<rd_returned, rd_platform, rd_stream, rd_pos, rd_packets, rd_pc, pcap_buffer,
                   header_read, rd_chunks, rd_pushed, rd_fresh, rd_expected,
                   rd_got, rd_gets>>

\* thread.join() returns once the reader loop has been left
MonitorStopJoined ==
    /\ rd_owner = "joining"
    /\ rd_pc = "exited"
    /\ rd_owner' = "stopped"
    /\ UNCHANGED <<rd_returned, rd_platform, rd_stream, rd_end, rd_pos, rd_child, rd_running,
                   rd_packets, rd_pc, pcap_buffer, header_read, rd_chunks,
                   rd_pushed, rd_fresh, rd_expected, rd_got, rd_gets>>

(***************************************************************************)
(* The pure functions of the program, each applied once to an argument     *)
(* drawn when the run starts.                                              *)
(***************************************************************************)
VARIABLES
    pure_call,     \* the function called and its argument
    pure_out       \* None, or Some(the value it returned)

pureVars == <<pure_call, pure_out>>

\* the range of the configuration's magnitudes, saturations and dead bands
CONFIG_MAX == 10000

\* scale_magnitude on every magnitude of the configuration's range
ScaleCalls == {[fn |-> "scale_magnitude", arg |-> m] : m \in (0 - CONFIG_MAX) .. CONFIG_MAX}

\* is_ffb_command on packets of either direction, with every first payload
\* byte and every payload length up to MaxPayloadLen
ClassifyCalls ==
    {[fn |-> "is_ffb_command", arg |-> UsbPacket(Duration(0, 0), d, 1, <<>>)]
        : d \in PacketDirection}
    \cup
    {[fn |-> "is_ffb_command",
      arg |-> UsbPacket(Duration(0, 0), d, 1, <<b>> \o Zeros(n - 1))]
        : d \in PacketDirection, b \in 0 .. 255, n \in 1 .. MaxPayloadLen}

\* create_set_condition_params_report on every pair of saturations s and
\* CONFIG_MAX - s
ConditionReportCalls ==
    {[fn |-> "create_set_condition_params_report",
      arg |-> [effect_type |-> 6,
               params |-> [DefaultConditionParams EXCEPT
                              !.positive_saturation = sat,
                              !.negative_saturation = CONFIG_MAX - sat]]]
        : sat \in 0 .. CONFIG_MAX}

\* create_set_condition_params_report on every offset of the range
OffsetReportCalls ==
    {[fn |-> "create_set_condition_params_report",
      arg |-> [effect_type |-> 6, params |-> [DefaultConditionParams EXCEPT !.offset = o]]]
        : o \in (0 - CONFIG_MAX) .. CONFIG_MAX}

\* create_set_condition_params_report on every pair of coefficients c and -c
CoefficientReportCalls ==
    {[fn |-> "create_set_condition_params_report",
      arg |-> [effect_type |-> 6,
               params |-> [DefaultConditionParams EXCEPT
                              !.positive_coefficient = c,
                              !.negative_coefficient = 0 - c]]]
        : c \in (0 - CONFIG_MAX) .. CONFIG_MAX}

\* create_set_condition_params_report on every dead band of the range
DeadBandReportCalls ==
    {[fn |-> "create_set_condition_params_report",
      arg |-> [effect_type |-> 6, params |-> [DefaultConditionParams EXCEPT !.dead_band = d]]]
        : d \in 0 .. CONFIG_MAX}

\* the signed and the unsigned field values, and the durations, of the effects
\* handed to the translation
SignedFieldValues == {0 - CONFIG_MAX, -5000, -2, -1, 0, 1, 2, 5000, CONFIG_MAX}
UnsignedFieldValues == {0, 1, 5000, CONFIG_MAX}
NativeParams ==
    {[duration |-> d, start_delay |-> 0, gain |-> 10000] : d \in {0, 1, 1000}}
\* the match of apply_effect that builds the native record, on effects of all
\* four variants, every wave type and every condition type
NativeEffectCalls ==
    {[fn |-> "sdl_effect_of",
      arg |-> EffectConstant(p, [magnitude |-> m, direction |-> DefaultDirection,
                                 envelope |-> DefaultEnvelope])]
        : p \in NativeParams, m \in SignedFieldValues}
    \cup
    {[fn |-> "sdl_effect_of",
      arg |-> EffectPeriodic(p, [wave_type |-> w, magnitude |-> m, offset |-> o, phase |-> 0,
                                 period |-> 100, direction |-> DefaultDirection,
                                 envelope |-> DefaultEnvelope])]
        : p \in NativeParams, w \in WaveType, m \in UnsignedFieldValues,
          o \in SignedFieldValues}
    \cup
    {[fn |-> "sdl_effect_of",
      arg |-> EffectRamp(p, [start_magnitude |-> s, end_magnitude |-> e,
                             direction |-> DefaultDirection, envelope |-> DefaultEnvelope])]
        : p \in NativeParams, s \in SignedFieldValues, e \in SignedFieldValues}
    \cup
    {[fn |-> "sdl_effect_of",
      arg |-> EffectCondition(p, [condition_type |-> c,
                 x_axis |-> [offset |-> o, positive_coefficient |-> k,
                             negative_coefficient |-> 0 - k,
                             positive_saturation |-> sat,
                             negative_saturation |-> CONFIG_MAX - sat,
                             dead_band |-> 0]])]
        : p \in NativeParams, c \in ConditionType, o \in SignedFieldValues,
          k \in {-5000, 1, CONFIG_MAX}, sat \in UnsignedFieldValues}

\* the payloads of the records handed to the decoders
DecodePayloads == {<<>>, <<1>>, <<1, 10>>, <<17, 0, 0>>}
\* whole usbmon records of every event type, transfer type and direction
UsbmonRecords ==
    {UsbmonRecord(t, x, e, 7, 5, p)
        : t \in {83, 67, 69}, x \in 0 .. 3, e \in {0, 1, 2, 129, 130}, p \in DecodePayloads}
\* whole USBPcap records of every direction and transfer type
UsbpcapRecords ==
    {UsbpcapRecord(i, e, t, p)
        : i \in {0, 1}, e \in {0, 1, 129}, t \in 0 .. 3, p \in DecodePayloads}
\* each decoder on whole records, on records cut one byte short of their
\* end, and on records cut inside their header
DecodeCalls ==
    {[fn |-> "parse_record", arg |-> [platform |-> "linux", data |-> r]]
        : r \in UsbmonRecords}
    \cup
    {[fn |-> "parse_record",
      arg |-> [platform |-> "linux", data |-> SubSeq(r, 1, Len(r) - cut)]]
        : r \in UsbmonRecords, cut \in {1, 4}}
    \cup
    {[fn |-> "parse_record", arg |-> [platform |-> "windows", data |-> r]]
        : r \in UsbpcapRecords}
    \cup
    {[fn |-> "parse_record",
      arg |-> [platform |-> "windows", data |-> SubSeq(r, 1, Len(r) - cut)]]
        : r \in UsbpcapRecords, cut \in {1, 4}}

\* envelopes with attack and fade times on both sides of 2^16 and levels up
\* to twice the configuration's range
EnvelopeValues ==
    {[attack_time |-> t, attack_level |-> l, fade_time |-> 70000 - t, fade_level |-> 20000 - l]
        : t \in {0, 500, 65535, 65536, 70000}, l \in {0, 1, 5000, 10000, 20000}}
\* the translation of Constant, Periodic and Ramp effects with these envelopes
EnvelopeEffectCalls ==
    {[fn |-> "sdl_effect_of",
      arg |-> EffectConstant(DefaultEffectParams,
                 [magnitude |-> 5000, direction |-> DefaultDirection, envelope |-> env])]
        : env \in EnvelopeValues}
    \cup
    {[fn |-> "sdl_effect_of",
      arg |-> EffectPeriodic(DefaultEffectParams,
                 [wave_type |-> "Sine", magnitude |-> 5000, offset |-> 0, phase |-> 0,
                  period |-> 100, direction |-> DefaultDirection, envelope |-> env])]
        : env \in EnvelopeValues}
    \cup
    {[fn |-> "sdl_effect_of",
      arg |-> EffectRamp(DefaultEffectParams,
                 [start_magnitude |-> 0, end_magnitude |-> 5000,
                  direction |-> DefaultDirection, envelope |-> env])]
        : env \in EnvelopeValues}

InitPureIdle == pure_call = [fn |-> "none"] /\ pure_out = None

EvalScaleMagnitude ==
    /\ pure_call.fn = "scale_magnitude"
    /\ pure_out = None
    /\ pure_out' = Some(scale_magnitude(pure_call.arg))
    /\ UNCHANGED pure_call

EvalIsFfbCommand ==
    /\ pure_call.fn = "is_ffb_command"
    /\ pure_out = None
    /\ pure_out' = Some(is_ffb_command(pure_call.arg))
    /\ UNCHANGED pure_call

EvalConditionReport ==
    /\ pure_call.fn = "create_set_condition_params_report"
    /\ pure_out = None
    /\ pure_out' = Some(create_set_condition_params_report(pure_call.arg.effect_type,
                                                           pure_call.arg.params))
    /\ UNCHANGED pure_call

EvalNativeEffect ==
    /\ pure_call.fn = "sdl_effect_of"
    /\ pure_out = None
    /\ pure_out' = Some(sdl_effect_of(pure_call.arg))
    /\ UNCHANGED pure_call

EvalParseRecord ==
    /\ pure_call.fn = "parse_record"
    /\ pure_out = None
    /\ pure_out' = Some(parse_record(pure_call.arg.platform, pure_call.arg.data))
    /\ UNCHANGED pure_call

(***************************************************************************)
(* main.rs: Scenario::play over a driver of the FfbDriver contract.  The   *)
(* driver's answers to apply_effect are inputs; the calls it receives are  *)
(* logged in play_calls.                                                   *)
(***************************************************************************)
VARIABLES
    scenario,        \* the Scenario play runs on: loop_forever, repeat_count, steps
    play_pc,         \* "ready", "iteration", "step", "stop" or "done"
    play_iteration,  \* the outer loop's iteration
    play_idx,        \* the inner loop's idx (0-based, as enumerate gives it)
    all_outputs,     \* all_outputs: Vec<StepOutput>
    play_calls,      \* the calls the driver has received, in order
    play_result      \* None until play returns

playVars == <<scenario, play_pc, play_iteration, play_idx, all_outputs,
              play_calls, play_result>>

\* steps of a scenario
MaxSteps == 2
\* repeat_count of a scenario, and the passes followed of a loop_forever run
MaxRepeat == 2

\* ScenarioStep
ScenarioStep(effect) == [effect |-> effect]

\* the effects of the scenarios: one of each label family, and a duration 0
StepEffects ==
    {e \in ConstantEffects :
        e.force.magnitude = 5000 /\ e.params.duration = 0 /\ e.params.start_delay = 0}
    \cup {e \in ConditionEffects :
            /\ e.effect.condition_type = "Spring"
            /\ e.effect.x_axis = DefaultConditionParams
            /\ e.params.duration = 1000}

RECURSIVE StepLists(_)
StepLists(n) ==
    IF n = 0 THEN {<<>>}
    ELSE StepLists(n - 1)
         \cup {Append(l, ScenarioStep(e)) : l \in {x \in StepLists(n - 1) : Len(x) = n - 1},
                                            e \in StepEffects}

Scenarios ==
    {[loop_forever |-> lf, repeat_count |-> rc, steps |-> st] :
        lf \in BOOLEAN, rc \in 0 .. MaxRepeat, st \in StepLists(MaxSteps)}

\* the number of passes: u32::MAX when loop_forever, written 2^30 here (every
\* count of the model is below it)
iterations(self) == IF self.loop_forever THEN U32_CAP ELSE self.repeat_count

\* the label of a step
effect_type(effect) ==
    CASE effect.type = "Constant" -> "Constant force"
      [] effect.type = "Periodic" ->
            (CASE effect.effect.wave_type = "Sine" -> "Periodic (sine)"
               [] effect.effect.wave_type = "Square" -> "Periodic (square)"
               [] effect.effect.wave_type = "Triangle" -> "Periodic (triangle)"
               [] effect.effect.wave_type = "SawtoothUp" -> "Periodic (sawtooth up)"
               [] effect.effect.wave_type = "SawtoothDown" -> "Periodic (sawtooth down)")
      [] effect.type = "Ramp" -> "Ramp (linear change)"
      [] effect.type = "Condition" ->
            (CASE effect.effect.condition_type = "Spring" -> "Condition (spring)"
               [] effect.effect.condition_type = "Damper" -> "Condition (damper)"
               [] effect.effect.condition_type = "Friction" -> "Condition (friction)"
               [] effect.effect.condition_type = "Inertia" -> "Condition (inertia)")

\* a StepOutput numbered by the 0-based idx itself
MutStepOutputZeroBased(idx, step_name, pkts) ==
    [step_index |-> idx, step_name |-> step_name, packets |-> pkts]

\* StepOutput { step_index: idx + 1, step_name, packets }
StepOutput(idx, step_name, pkts) ==
    [step_index |-> idx + 1, step_name |-> step_name, packets |-> pkts]

\* match driver.apply_effect(..) { Ok(p) => p, Err(e) => Vec::new() }
packets_or_empty(reply) == IF reply.ok THEN reply.value ELSE <<>>

\* what a driver may answer to apply_effect: a packet, or an error
ApplyReplies == {Ok(<<"01 0A">>), Err("DeviceError")}

InitPlayIdle ==
    /\ scenario = [loop_forever |-> FALSE, repeat_count |-> 0, steps |-> <<>>]
    /\ play_pc = "idle"
    /\ play_iteration = 0
    /\ play_idx = 0
    /\ all_outputs = <<>>
    /\ play_calls = <<>>
    /\ play_result = None

InitPlay ==
    /\ scenario \in Scenarios
    /\ play_pc = "ready"
    /\ play_iteration = 0
    /\ play_idx = 0
    /\ all_outputs = <<>>
    /\ play_calls = <<>>
    /\ play_result = None

\* play is entered: iterations is computed and all_outputs is a new Vec
PlayBegin ==
    /\ play_pc = "ready"
    /\ play_pc' = "iteration"
    /\ play_iteration' = 0
    /\ all_outputs' = <<>>
    /\ UNCHANGED <<scenario, play_idx, play_calls, play_result>>

\* for iteration in 0..iterations: the next pass starts, or the loop is over
\* and play returns Ok(all_outputs).  A loop_forever run is followed for
\* MaxRepeat passes.
PlayIteration ==
    /\ play_pc = "iteration"
    /\ IF play_iteration < iterations(scenario)
       THEN /\ play_iteration < MaxRepeat
            /\ play_idx' = 0
            /\ play_pc' = "step"
            /\ UNCHANGED play_result
       ELSE /\ play_pc' = "done"
            /\ play_result' = Ok(all_outputs)
            /\ UNCHANGED play_idx
    /\ UNCHANGED <<scenario, play_iteration, all_outputs, play_calls>>

\* for (idx, step) in self.steps.iter().enumerate(): apply_effect is called
\* and its StepOutput is pushed; after the last step the pass is over
PlayStep ==
    /\ play_pc = "step"
    /\ IF play_idx < Len(scenario.steps)
       THEN \E reply \in ApplyReplies :
              LET step == scenario.steps[play_idx + 1]
              IN  /\ play_calls' = Append(play_calls,
                                      [op |-> "apply_effect", effect |-> step.effect,
                                       reply |-> reply])
                  /\ all_outputs' = Append(all_outputs,
                                       StepOutput(play_idx, effect_type(step.effect),
                                                  packets_or_empty(reply)))
                  /\ play_pc' = "stop"
                  /\ UNCHANGED play_iteration
       ELSE /\ play_iteration' = play_iteration + 1
            /\ play_pc' = "iteration"
            /\ UNCHANGED <<play_calls, all_outputs>>
    /\ UNCHANGED <<scenario, play_idx, play_result>>

\* let _ = driver.stop_all_effects(): whatever it answers is dropped
PlayStopAllEffects ==
    /\ play_pc = "stop"
    /\ play_calls' = Append(play_calls, [op |-> "stop_all_effects"])
    /\ play_idx' = play_idx + 1
    /\ play_pc' = "step"
    /\ UNCHANGED <<scenario, play_iteration, all_outputs, play_result>>

(***************************************************************************)
(* Specifications.                                                         *)
(***************************************************************************)
vars == <<driver, simVars, sdlVars, readerVars, pureVars, playVars>>

\* what the actions of each part leave alone
simFrame == <<driver, sdlVars, readerVars, pureVars, playVars>>
sdlFrame == <<driver, simVars, readerVars, pureVars, playVars>>
readerFrame == <<driver, simVars, sdlVars, pureVars, playVars>>
pureFrame == <<driver, simVars, sdlVars, readerVars, playVars>>
playFrame == <<driver, simVars, sdlVars, readerVars, pureVars>>

NextSimagic ==
    \/ SimInitialize /\ UNCHANGED simFrame
    \/ SimApplyEffect /\ UNCHANGED simFrame
    \/ SimStopAllEffects /\ UNCHANGED simFrame
    \/ SimShutdown /\ UNCHANGED simFrame

NextSdl ==
    \/ SdlInitialize /\ UNCHANGED sdlFrame
    \/ SdlApplyEffect /\ UNCHANGED sdlFrame
    \/ SdlPreDrain /\ UNCHANGED sdlFrame
    \/ SdlStopPrevious /\ UNCHANGED sdlFrame
    \/ SdlCreate /\ UNCHANGED sdlFrame
    \/ SdlRun /\ UNCHANGED sdlFrame
    \/ SdlSleep /\ UNCHANGED sdlFrame
    \/ SdlPostDrain /\ UNCHANGED sdlFrame
    \/ SdlStopAllEffects /\ UNCHANGED sdlFrame
    \/ SdlShutdown /\ UNCHANGED sdlFrame
    \/ WireEmit /\ UNCHANGED sdlFrame
    \/ StopReportCaptured /\ UNCHANGED sdlFrame
    \/ CapturePush /\ UNCHANGED sdlFrame
    \/ ReaderExit /\ UNCHANGED sdlFrame

NextReader ==
    \/ PcapReaderCheck /\ UNCHANGED readerFrame
    \/ PcapReaderRead /\ UNCHANGED readerFrame
    \/ PcapReaderEof /\ UNCHANGED readerFrame
    \/ PcapReaderParse /\ UNCHANGED readerFrame
    \/ ChildExit /\ UNCHANGED readerFrame
    \/ MonitorGetPackets /\ UNCHANGED readerFrame
    \/ MonitorStopCapture /\ UNCHANGED readerFrame
    \/ MonitorStopJoined /\ UNCHANGED readerFrame

NextPure ==
    \/ EvalScaleMagnitude /\ UNCHANGED pureFrame
    \/ EvalIsFfbCommand /\ UNCHANGED pureFrame
    \/ EvalConditionReport /\ UNCHANGED pureFrame
    \/ EvalNativeEffect /\ UNCHANGED pureFrame
    \/ EvalParseRecord /\ UNCHANGED pureFrame

NextPlay ==
    \/ PlayBegin /\ UNCHANGED playFrame
    \/ PlayIteration /\ UNCHANGED playFrame
    \/ PlayStep /\ UNCHANGED playFrame
    \/ PlayStopAllEffects /\ UNCHANGED playFrame

\* the reader variables of the runs that do not look inside the reader loop
InitReaderIdle == InitReaderOn([platform |-> "linux", bytes |-> <<>>])

InitSimagicRun ==
    driver = "SIMAGIC" /\ InitSimagic /\ InitSdl /\ InitReaderIdle /\ InitPureIdle /\ InitPlayIdle
InitSdlRun ==
    driver = "SDL" /\ InitSimagic /\ InitSdl /\ InitReaderIdle /\ InitPureIdle /\ InitPlayIdle
InitReaderRun ==
    /\ driver = "MONITOR"
    /\ InitSimagic
    /\ InitSdl
    /\ \E st \in Streams : InitReaderOn(st)
    /\ InitPureIdle
    /\ InitPlayIdle
InitPureRun ==
    /\ driver = "NONE"
    /\ InitSimagic
    /\ InitSdl
    /\ InitReaderIdle
    /\ \/ pure_call \in ScaleCalls
       \/ pure_call \in ClassifyCalls
       \/ pure_call \in ConditionReportCalls
       \/ pure_call \in OffsetReportCalls
       \/ pure_call \in CoefficientReportCalls
       \/ pure_call \in DeadBandReportCalls
       \/ pure_call \in NativeEffectCalls
       \/ pure_call \in DecodeCalls
       \/ pure_call \in EnvelopeEffectCalls
    /\ pure_out = None
    /\ InitPlayIdle
InitPlayRun ==
    /\ driver = "ANY"
    /\ InitSimagic
    /\ InitSdl
    /\ InitReaderIdle
    /\ InitPureIdle
    /\ InitPlay
\* main.rs: the driver is chosen by name when the run starts
Init ==
    driver \in {"SIMAGIC", "SDL"} /\ InitSimagic /\ InitSdl /\ InitReaderIdle /\ InitPureIdle /\ InitPlayIdle
Next == NextSimagic \/ NextSdl

SpecSimagic == InitSimagicRun /\ [][NextSimagic]_vars
SpecSdl == InitSdlRun /\ [][NextSdl]_vars
SpecReader == InitReaderRun /\ [][NextReader]_vars
SpecPure == InitPureRun /\ [][NextPure]_vars
\* the streams of the runs checked for termination: a capture of one record,
\* and text instead of a capture
LiveStreams ==
    {[platform |-> "windows", bytes |-> WindowsHeader \o WindowsKeptRecord],
     [platform |-> "linux", bytes |-> TextStream]}
InitReaderLive ==
    /\ driver = "MONITOR"
    /\ InitSimagic
    /\ InitSdl
    /\ \E st \in LiveStreams : InitReaderOn(st)
    /\ InitPureIdle
    /\ InitPlayIdle
\* the capture thread: the steps of its reader loop
ReaderThread ==
    (PcapReaderCheck \/ PcapReaderRead \/ PcapReaderEof \/ PcapReaderParse)
        /\ UNCHANGED readerFrame
\* the reader runs with a capture thread that is scheduled whenever it can
\* take a step, and a join that returns once the thread has ended
SpecReaderLive ==
    /\ InitReaderLive
    /\ [][NextReader]_vars
    /\ WF_vars(ReaderThread)
    /\ WF_vars(MonitorStopJoined /\ UNCHANGED readerFrame)
SpecPlay == InitPlayRun /\ [][NextPlay]_vars
Spec == Init /\ [][Next]_vars

(***************************************************************************)
(* Properties of SimagicDriver, checked under SpecSimagic.                 *)
(***************************************************************************)
\* the value of one hexadecimal digit character
HexValue(c) == CHOOSE k \in 0 .. 15 : HexDigit[k + 1] = c
\* the bytes a returned report string stands for, read back pair by pair
ParseHex(str) ==
    [i \in 1 .. ((Len(str) + 1) \div 3) |->
        16 * HexValue(str[3 * i - 2]) + HexValue(str[3 * i - 1])]
\* the command byte of every report string the last call returned
ReturnedCommands == [i \in 1 .. Len(sim_result.value) |-> ParseHex(sim_result.value[i])[2]]
\* the last operation was apply_effect on an initialized driver
AppliedOnInitialized == sim_op = "apply_effect" /\ sim_pre.initialized

\* C1: on an initialized SimagicDriver, apply_effect of a Constant effect
\* returns exactly SetConstantMagnitude, SetEffect, StartEffect in that order
\* when the magnitude is neither 0 nor -1, and exactly SetEffect, StartEffect
\* when it is 0 or -1.
C1_ConstantReports ==
    (AppliedOnInitialized /\ sim_effect.type = "Constant") =>
        /\ sim_result.ok
        /\ ReturnedCommands =
              IF sim_effect.force.magnitude \notin {0, -1}
              THEN <<SetConstantMagnitude, SetEffect, StartEffect>>
              ELSE <<SetEffect, StartEffect>>
\* magnitude 1 was applied and three reports came back
C1_Witness ==
    /\ AppliedOnInitialized
    /\ sim_effect.type = "Constant"
    /\ sim_effect.force.magnitude = 1
    /\ Len(sim_result.value) = 3

\* C2: on an initialized SimagicDriver, apply_effect of a Periodic effect of
\* any wave type, or of a Ramp effect, returns exactly two reports, SetEffect
\* then StartEffect.
C2_PeriodicRampReports ==
    (AppliedOnInitialized /\ sim_effect.type \in {"Periodic", "Ramp"}) =>
        /\ sim_result.ok
        /\ ReturnedCommands = <<SetEffect, StartEffect>>
\* a sawtooth-down wave was applied and two reports came back
C2_Witness ==
    /\ AppliedOnInitialized
    /\ sim_effect.type = "Periodic"
    /\ sim_effect.effect.wave_type = "SawtoothDown"
    /\ Len(sim_result.value) = 2

\* C3: on an initialized SimagicDriver, apply_effect of a Condition effect of
\* any condition type returns exactly three reports: SetConditionParams built
\* from the x-axis parameters, then SetEffect, then StartEffect.
C3_ConditionReports ==
    (AppliedOnInitialized /\ sim_effect.type = "Condition") =>
        /\ sim_result.ok
        /\ ReturnedCommands = <<SetConditionParams, SetEffect, StartEffect>>
        /\ ParseHex(sim_result.value[1]) =
              create_set_condition_params_report(SimagicEffectType(sim_effect),
                                                 sim_effect.effect.x_axis)
\* a Spring with a dead band of 656 was applied and three reports came back
C3_Witness ==
    /\ AppliedOnInitialized
    /\ sim_effect.type = "Condition"
    /\ sim_effect.effect.condition_type = "Spring"
    /\ sim_effect.effect.x_axis.dead_band = 656
    /\ Len(sim_result.value) = 3

UpperHexDigits == {"0", "1", "2", "3", "4", "5", "6", "7", "8", "9", "A", "B", "C", "D", "E", "F"}
\* C4: every report SimagicDriver returns is 21 bytes, its byte 0 the report
\* id 0x01 and its byte 1 one of the command codes 0x01, 0x03, 0x05, 0x0A, and
\* it is returned as 21 two-digit uppercase hexadecimal pairs separated by
\* single spaces, the strings in the order the reports were emitted.
C4_ReportShape ==
    (sim_op = "apply_effect" /\ sim_result.ok) =>
        /\ Len(sim_result.value) = Len(generated_reports)
        /\ \A i \in 1 .. Len(generated_reports) :
              LET report == generated_reports[i]
                  str    == sim_result.value[i]
              IN  /\ Len(report) = 21
                  /\ report[1] = 1
                  /\ report[2] \in {1, 3, 5, 10}
                  /\ Len(str) = 62
                  /\ \A k \in 1 .. 62 :
                        IF k % 3 = 0 THEN str[k] = " " ELSE str[k] \in UpperHexDigits
                  /\ ParseHex(str) = report
\* a magnitude report with bytes above 0x9F was returned: -50 is sent as CF FF
C4_Witness ==
    /\ AppliedOnInitialized
    /\ sim_effect.type = "Constant"
    /\ sim_effect.force.magnitude = -50
    /\ Len(sim_result.value) = 3
    /\ SubSeq(sim_result.value[1], 10, 14) = <<"C", "F", " ", "F", "F">>

\* the quantization as the specification states it
Quantized(m) ==
    IF m = 1 THEN 0
    ELSE IF m \in {0, 10000, -10000} THEN m
    ELSE IF m > 0 THEN m - 1 ELSE m + 1
\* C5: the constant-magnitude quantization maps 1 to 0, leaves 0, 10000 and
\* -10000 unchanged and moves every other value one unit toward zero; the
\* result is the little-endian 16-bit two's-complement value in data[0..2) of
\* the SetConstantMagnitude report, which is the report apply_effect sends.
C5_MagnitudeQuantization ==
    (AppliedOnInitialized /\ sim_effect.type = "Constant") =>
        LET m      == sim_effect.force.magnitude
            report == create_set_constant_magnitude_report(sim_pre.current_effect_slot, m)
        IN  /\ I16FromLE(report[4], report[5]) = Quantized(m)
            /\ report[2] = SetConstantMagnitude
            /\ (m \notin {0, -1}) => generated_reports[1] = report
\* 50 was applied and 49 (0x31 0x00) was sent
C5_Witness ==
    /\ AppliedOnInitialized
    /\ sim_effect.type = "Constant"
    /\ sim_effect.force.magnitude = 50
    /\ generated_reports[1][4] = 49
    /\ generated_reports[1][5] = 0

\* C7: SimagicDriver's apply_effect is a function of the effect alone: on an
\* initialized driver, whatever was applied, stopped or initialized before,
\* it emits and returns what a freshly initialized driver does for the same
\* effect, it leaves effect slot 1 and initialized as they were, and it
\* never waits.
C7_PureFunctionOfEffect ==
    AppliedOnInitialized =>
        LET fresh == simagic_apply_effect([SimagicNew EXCEPT !.initialized = TRUE], sim_effect)
        IN  /\ generated_reports = fresh.reports
            /\ sim_result = fresh.result
            /\ SimSelf = sim_pre
            /\ current_effect_slot = 1
            /\ sim_initialized
            /\ sim_waited = 0
\* an effect with a duration of a second was applied and returned reports
C7_Witness ==
    /\ AppliedOnInitialized
    /\ sim_effect.params.duration = 1000
    /\ sim_effect.params.start_delay = 500
    /\ sim_result.ok
    /\ Len(generated_reports) = 3
\* the dead band field, data[11..13), of the condition report that was sent
SentDeadBand == U16FromLE(generated_reports[1][15], generated_reports[1][16])
\* a Condition effect with a dead band of 656 was applied
AppliedDeadBand656 ==
    /\ AppliedOnInitialized
    /\ sim_effect.type = "Condition"
    /\ sim_effect.effect.x_axis.dead_band = 656
\* C19 (as amended): the dead-band encoding of the input 656 is 100, and
\* every dead band d is encoded as the exact ceiling of d / 6.56.
C19_DeadBand656Is100 ==
    (AppliedOnInitialized /\ sim_effect.type = "Condition") =>
        /\ SentDeadBand = ((sim_effect.effect.x_axis.dead_band * 100) + 655) \div 656
        /\ sim_effect.effect.x_axis.dead_band = 656 => SentDeadBand = 100
\* 656 was applied and 100 (0x64 0x00) was sent
C19_Witness ==
    /\ AppliedDeadBand656
    /\ generated_reports[1][15] = 100
    /\ generated_reports[1][16] = 0
\* C19 as stated: the dead-band encoding of the input 656 is 101.
C19_DeadBand656Is101 == AppliedDeadBand656 => SentDeadBand = 101

\* C20: every SetEffect report has data[0] = 1, data[1..3) =
\* min(duration_ms, 0xFFFF) little-endian, data[3..5) = 00 00 whatever the
\* start delay, data[5..11) = 00 00 FF FF 04 3F, and the remaining data
\* bytes zero.
C20_SetEffectLayout ==
    AppliedOnInitialized =>
        \A i \in 1 .. Len(generated_reports) :
            generated_reports[i][2] = SetEffect =>
                LET data == SubSeq(generated_reports[i], 4, 21)
                    d    == Min(sim_effect.params.duration, 65535)
                IN  /\ data[1] = 1
                    /\ data[2] = d % 256 /\ data[3] = d \div 256
                    /\ data[4] = 0 /\ data[5] = 0
                    /\ SubSeq(data, 6, 11) = <<0, 0, 255, 255, 4, 63>>
                    /\ \A k \in 12 .. 18 : data[k] = 0
\* a duration of 65536 ms with a start delay of 500 ms was sent as FF FF, and
\* as the second of three reports
C20_Witness ==
    /\ AppliedOnInitialized
    /\ sim_effect.params.duration = 65536
    /\ sim_effect.params.start_delay = 500
    /\ Len(generated_reports) = 3
    /\ generated_reports[2][2] = SetEffect
    /\ generated_reports[2][5] = 255 /\ generated_reports[2][6] = 255

\* the kind of an effect: its variant, refined by the wave type or the
\* condition type
EffectKind(effect) ==
    CASE effect.type = "Constant" -> "Constant"
      [] effect.type = "Periodic" -> effect.effect.wave_type
      [] effect.type = "Ramp" -> "Ramp"
      [] effect.type = "Condition" -> effect.effect.condition_type
\* the code the specification states for every kind
StatedEffectCode ==
    [Constant |-> 1, Sine |-> 2, Damper |-> 5, Spring |-> 6, Friction |-> 7,
     Inertia |-> 9, Ramp |-> 14, Square |-> 15, Triangle |-> 16,
     SawtoothUp |-> 17, SawtoothDown |-> 18]
\* the SetEffect and StartEffect reports among the reports of the last call
SetAndStartReports ==
    {i \in 1 .. Len(generated_reports) : generated_reports[i][2] \in {SetEffect, StartEffect}}

\* C26: the effect-type byte is a fixed injective mapping of the effect kind
\* (Constant 0x01, Sine 0x02, Damper 0x05, Spring 0x06, Friction 0x07,
\* Inertia 0x09, Ramp 0x0E, Square 0x0F, Triangle 0x10, SawtoothUp 0x11,
\* SawtoothDown 0x12); the SetEffect and the StartEffect report of an applied
\* effect carry that code in byte 2, and no two kinds share a code.
C26_EffectTypeByte ==
    /\ AppliedOnInitialized =>
          /\ \E i \in SetAndStartReports : generated_reports[i][2] = SetEffect
          /\ \E i \in SetAndStartReports : generated_reports[i][2] = StartEffect
          /\ \A i \in SetAndStartReports :
                /\ generated_reports[i][3] = StatedEffectCode[EffectKind(sim_effect)]
                /\ ParseHex(sim_result.value[i])[3] = StatedEffectCode[EffectKind(sim_effect)]
    /\ \A e1, e2 \in Effects :
          EffectKind(e1) # EffectKind(e2) => SimagicEffectType(e1) # SimagicEffectType(e2)
\* an Inertia condition was applied and its SetEffect and StartEffect reports
\* both carry 0x09
C26_Witness ==
    /\ AppliedOnInitialized
    /\ EffectKind(sim_effect) = "Inertia"
    /\ Cardinality(SetAndStartReports) = 2
    /\ \A i \in SetAndStartReports : generated_reports[i][3] = 9


\* what the output may depend on: the kind and the duration and, for Constant,
\* the magnitude, for Condition, the x-axis parameters
RelevantPart(effect) ==
    [kind |-> EffectKind(effect),
     duration |-> effect.params.duration,
     magnitude |-> IF effect.type = "Constant" THEN effect.force.magnitude ELSE 0,
     x_axis |-> IF effect.type = "Condition" THEN effect.effect.x_axis
                ELSE DefaultConditionParams]
\* the effects that differ from the applied one in nothing the output may
\* depend on
SameRelevantPart == {e \in Effects : RelevantPart(e) = RelevantPart(sim_effect)}

\* C37: the output of SimagicDriver depends only on the effect's kind, its
\* duration, the Constant magnitude and the Condition x-axis parameters: two
\* effects that differ only in gain, start_delay, direction, envelope or, for
\* Periodic and Ramp, in magnitude, offset, phase, period, start_magnitude or
\* end_magnitude give byte-identical report sequences.
C37_OutputIgnoresOtherFields ==
    AppliedOnInitialized =>
        \A other \in SameRelevantPart :
            /\ simagic_apply_effect(sim_pre, other).reports = generated_reports
            /\ simagic_apply_effect(sim_pre, other).result = sim_result
\* a Sine effect was applied that shares its kind and duration with effects
\* of another gain, start delay, magnitude, offset, phase, period and envelope
C37_Witness ==
    /\ AppliedOnInitialized
    /\ sim_effect.type = "Periodic"
    /\ sim_effect.params.gain = 5000
    /\ sim_effect.params.start_delay = 500
    /\ \E other \in SameRelevantPart :
          /\ other.params.gain # sim_effect.params.gain
          /\ other.params.start_delay # sim_effect.params.start_delay
          /\ other.effect.magnitude # sim_effect.effect.magnitude
          /\ other.effect.offset # sim_effect.effect.offset
          /\ other.effect.phase # sim_effect.effect.phase
          /\ other.effect.period # sim_effect.effect.period
          /\ other.effect.envelope # sim_effect.effect.envelope
    /\ Len(generated_reports) = 2

(***************************************************************************)
(* Properties of both drivers, checked under Spec.                         *)
(***************************************************************************)
\* C6: for both drivers, apply_effect on a driver that is not initialized
\* (never initialized, or shut down since) returns DeviceError, produces no
\* reports and no native effect, and leaves the driver's state unchanged.
C6_UninitializedApplyFails ==
    /\ (sim_op = "apply_effect" /\ ~sim_pre.initialized) =>
          /\ sim_result = Err("DeviceError")
          /\ generated_reports = <<>>
          /\ SimSelf = sim_pre
    /\ (sdl_op = "apply_effect" /\ sdl_pc = "idle" /\ ~sdl_pre.initialized) =>
          /\ sdl_result = Err("DeviceError")
          /\ effect_id = None
          /\ dev_effects = <<>>
          /\ SdlSelf = sdl_pre
\* an SdlDriver that had been capturing, and so had been initialized, was
\* shut down and then refused an effect
C6_Witness ==
    /\ driver = "SDL"
    /\ sdl_op = "apply_effect"
    /\ sdl_pc = "idle"
    /\ ~sdl_pre.initialized
    /\ emitted > 0
    /\ ~sdl_pre.capture_thread
    /\ sdl_result = Err("DeviceError")

\* the native effects alive on the device
LiveEffects == DOMAIN dev_effects
\* the effect the driver records as current
RecordedEffect == IF current_effect_id = None THEN {} ELSE {current_effect_id.some}
\* an SdlDriver that holds nothing: as new, or as shutdown leaves it
SdlReleased ==
    [haptic |-> "null", current_effect_id |-> None, initialized |-> FALSE,
     capture_thread |-> FALSE, capture_process |-> FALSE, running |-> FALSE]
\* C16: for both drivers, stop_all_effects and shutdown return Ok in every
\* driver state; shutdown stops the active effect before it releases capture
\* and device, and leaves the driver not initialized, with no active effect,
\* no device handle and capture stopped, so a second shutdown changes nothing.
C16_StopAndShutdownOk ==
    /\ sim_op \in {"stop_all_effects", "shutdown"} => sim_result = Ok(Unit)
    /\ sim_op = "shutdown" =>
          (~sim_initialized /\ simagic_shutdown(SimSelf).self = SimSelf)
    /\ (sdl_op \in {"stop_all_effects", "shutdown"} /\ sdl_pc = "idle") =>
          sdl_result = Ok(Unit)
    /\ (sdl_op = "stop_all_effects" /\ sdl_pc = "idle") => LiveEffects = {}
    /\ (sdl_op = "shutdown" /\ sdl_pc = "idle") =>
          /\ SdlSelf = SdlReleased
          /\ LiveEffects = {}
          /\ ~reader_alive
          /\ (sdl_pre = SdlReleased => SdlSelf = sdl_pre)
\* an SdlDriver with an active effect was shut down
C16_Witness ==
    /\ driver = "SDL"
    /\ sdl_op = "shutdown"
    /\ sdl_pc = "idle"
    /\ sdl_pre.initialized
    /\ sdl_pre.current_effect_id # None
    /\ current_effect_id = None

SdlApplied == sdl_op = "apply_effect" /\ sdl_pc = "idle" /\ sdl_result.ok

\* C11: no packet that was in the capture queue when an apply_effect of
\* SdlDriver began is part of that call's result, and no packet is part of
\* the results of two calls: what a call returns was queued inside its own
\* window.
C11_NoPacketAcrossCalls ==
    SdlApplied =>
        /\ sdl_result.value = [i \in 1 .. Len(SelectSeq(sdl_drained, is_ffb_command)) |->
                                  format_hex(SelectSeq(sdl_drained, is_ffb_command)[i].data)]
        /\ Range(sdl_drained) \cap Range(sdl_entry) = {}
        /\ Range(sdl_drained) \cap sdl_returned_prev = {}
        /\ Range(sdl_drained) \subseteq Range(window)
\* a call found a packet queued at its start, an earlier call had returned
\* another, and this call returned a third
C11_Witness ==
    /\ SdlApplied
    /\ sdl_entry # <<>>
    /\ sdl_returned_prev # {}
    /\ Len(sdl_result.value) = 1

\* C12: at most one native effect created by an SdlDriver is alive in every
\* reachable state; apply_effect stops and destroys the previous effect
\* before it creates one, destroys a created effect that fails to start, and
\* between operations the live effects are the recorded current effect.
C12_AtMostOneEffect ==
    /\ Cardinality(LiveEffects) <= 1
    /\ sdl_pc \in {"idle", "pre_drain", "stop_prev", "sleep", "post_drain"} =>
          LiveEffects = RecordedEffect
    /\ sdl_pc = "create" => (LiveEffects = {} /\ RecordedEffect = {})
    /\ sdl_pc = "run" => (LiveEffects = {effect_id.some} /\ RecordedEffect = {})
\* an effect was active when apply_effect was called, and it is gone when the
\* new one is about to be created
C12_Witness ==
    /\ sdl_pc = "create"
    /\ sdl_pre.current_effect_id # None
    /\ LiveEffects = {}

\* C14: a successful apply_effect of SdlDriver waits for the effect's
\* duration between starting the effect and the post-drain if and only if
\* the duration is above 0; with duration 0 it does not wait and returns the
\* FFB packets queued in its window, possibly none.
C14_WaitsIffDurationPositive ==
    SdlApplied =>
        /\ sdl_waited = sdl_effect.params.duration
        /\ (sdl_waited > 0) <=> (sdl_effect.params.duration > 0)
        /\ LET accepted == SelectSeq(window, is_ffb_command)
           IN  Len(sdl_result.value) = Len(accepted)
\* an effect of duration 0 did not wait and still returned a packet
C14_Witness ==
    /\ SdlApplied
    /\ sdl_effect.params.duration = 0
    /\ sdl_waited = 0
    /\ Len(sdl_result.value) = 1

\* initialize has returned and the monitor holds no capture thread: its
\* start_capture failed (a start_capture that succeeds sets capture_thread)
CaptureStartFailed == sdl_op = "initialize" /\ sdl_pc = "idle" /\ ~capture_thread

\* C21: if starting the USB capture fails, SdlDriver.initialize returns
\* InitializationFailed after one start_capture and nothing else: SDL is not
\* initialized and no device is opened; the driver stays uninitialized, and an
\* apply_effect that follows returns DeviceError.
C21_CaptureFailureIsFatal ==
    /\ [](CaptureStartFailed =>
            /\ sdl_result = Err("InitializationFailed")
            /\ native_calls = <<NativeCall("start_capture", 0)>>
            /\ haptic = "null"
            /\ ~sdl_initialized
            /\ ~running /\ ~capture_process)
    /\ [][(CaptureStartFailed /\ sdl_pc' = "idle" /\ sdl_op' = "apply_effect") =>
            sdl_result' = Err("DeviceError")]_vars
\* an initialize whose start_capture failed has returned
C21_Witness ==
    /\ CaptureStartFailed
    /\ ~sdl_result.ok
    /\ Len(native_calls) = 1

\* the moves of the lifecycle Idle -> Capturing -> Stopped
LifecycleMoves == {<<"Idle", "Capturing">>, <<"Capturing", "Stopped">>}
\* the calls by which stop_capture touches a process or a thread
ProcessAndThreadCalls ==
    {NativeCall("Child::kill", 0), NativeCall("Child::wait", 0),
     NativeCall("JoinHandle::join", 0)}
\* the last operation was a shutdown, whose stop_capture has returned
StopCaptureReturned == sdl_op = "shutdown" /\ sdl_pc = "idle"
\* after a stop_capture the flag is false and nothing is held; one on a
\* monitor that held nothing touched no process and no thread, and changed
\* nothing
StopCaptureReleases ==
    StopCaptureReturned =>
        /\ ~running /\ ~capture_process /\ ~capture_thread
        /\ NativeCall("stop_capture", 0) \in Range(native_calls)
        /\ (~sdl_pre.capture_process /\ ~sdl_pre.capture_thread) =>
              /\ Range(native_calls) \cap ProcessAndThreadCalls = {}
              /\ ~sdl_pre.running => (SdlSelf.running = sdl_pre.running)

\* C22: the capture monitor only moves Idle -> Capturing -> Stopped;
\* stop_capture on a monitor that never started completes without touching a
\* process or a thread, stop_capture twice behaves as once, and after any
\* stop_capture the running flag is false and the monitor holds no capture
\* process and no reader thread.
C22_MonitorLifecycle ==
    /\ [][monitor_state' # monitor_state =>
            <<monitor_state, monitor_state'>> \in LifecycleMoves]_vars
    /\ []StopCaptureReleases

\* the calls of the given function among the calls of the current operation
CallsOf(fn) == SelectSeq(native_calls, LAMBDA c : c.fn = fn)
\* the last apply_effect returned the given error
ApplyFailedWith(e) == sdl_op = "apply_effect" /\ sdl_pc = "idle" /\ sdl_result = Err(e)
\* what both failures leave: no retry, no wait, no packets, no current effect,
\* no effect on the device, a driver that is still initialized
FailedApplyLeaves ==
    /\ Len(CallsOf("SDL_CreateHapticEffect")) = 1
    /\ CallsOf("sleep") = <<>> /\ sdl_waited = 0
    /\ Len(CallsOf("get_packets")) = 1
    /\ ~sdl_result.ok
    /\ current_effect_id = None
    /\ LiveEffects = {}
    /\ sdl_initialized /\ haptic # "null"

\* C29: apply_effect of SdlDriver submits the native effect at most once and
\* starts it at most once, with play count 1.  When creation fails it returns
\* EffectCreationFailed; when the start fails it destroys the effect it just
\* created and returns EffectPlaybackFailed.  In both cases it does not
\* retry, does not wait, returns no packets, and leaves the driver
\* initialized with no current effect.
C29_FailedEffectNotRetried ==
    /\ [](/\ Len(CallsOf("SDL_CreateHapticEffect")) <= 1
          /\ Len(CallsOf("SDL_RunHapticEffect")) <= 1
          /\ \A i \in 1 .. Len(native_calls) :
                native_calls[i].fn = "SDL_RunHapticEffect" => native_calls[i].arg = 1)
    /\ [](ApplyFailedWith("EffectCreationFailed") =>
            /\ FailedApplyLeaves
            /\ CallsOf("SDL_RunHapticEffect") = <<>>
            /\ native_calls[Len(native_calls)].fn = "SDL_CreateHapticEffect")
    /\ [](ApplyFailedWith("EffectPlaybackFailed") =>
            /\ FailedApplyLeaves
            /\ SubSeq(native_calls, Len(native_calls) - 2, Len(native_calls)) =
                  <<NativeCall("SDL_CreateHapticEffect", 0),
                    NativeCall("SDL_RunHapticEffect", 1),
                    NativeCall("SDL_DestroyHapticEffect", 0)>>)
    /\ [][(sdl_pc = "create" /\ sdl_pc' = "idle") =>
            sdl_result' = Err("EffectCreationFailed")]_vars
    /\ [][(sdl_pc = "run" /\ sdl_pc' = "idle") =>
            (sdl_result' = Err("EffectPlaybackFailed")
             /\ effect_id.some \in DOMAIN dev_effects
             /\ effect_id.some \notin DOMAIN dev_effects')]_vars
\* the start of an effect failed while another effect was current: the old
\* effect was stopped, the new one created, started once and destroyed
C29_Witness ==
    /\ ApplyFailedWith("EffectPlaybackFailed")
    /\ sdl_pre.current_effect_id # None
    /\ Len(native_calls) = 6
    /\ current_effect_id = None


\* C38: in every reachable state of SdlDriver a recorded current effect
\* implies that the driver is initialized and holds a device handle; after
\* shutdown, after stop_all_effects and after a failed apply_effect the
\* driver records no current effect.
C38_CurrentEffectImpliesReady ==
    /\ current_effect_id # None => (sdl_initialized /\ haptic # "null")
    /\ (sdl_pc = "idle" /\ sdl_op \in {"shutdown", "stop_all_effects"}) =>
          current_effect_id = None
    /\ (sdl_pc = "idle" /\ sdl_op = "apply_effect" /\ ~sdl_result.ok) =>
          current_effect_id = None
\* the creation of an effect failed while another effect was current
C38_Witness ==
    /\ ApplyFailedWith("EffectCreationFailed")
    /\ sdl_pre.current_effect_id # None
    /\ sdl_pre.initialized
    /\ current_effect_id = None

\* native_calls are those of an apply_effect, running or returned
InApplyEffect == sdl_pc # "idle" \/ sdl_op = "apply_effect"
\* the stop and the destroy of the previous effect come after the call's first
\* get_packets and before its second
StopInsideWindow ==
    InApplyEffect =>
        \A i \in DOMAIN native_calls :
            native_calls[i].fn = "SDL_StopHapticEffect" =>
                /\ i = 2
                /\ native_calls[1] = NativeCall("get_packets", 0)
                /\ native_calls[3] = NativeCall("SDL_DestroyHapticEffect", 0)
                /\ \A j \in DOMAIN native_calls :
                      (j # 1 /\ native_calls[j].fn = "get_packets") => j > 3
\* the reports of the stop that the capture thread queued before the
\* post-drain were taken by it and, when is_ffb_command accepts them, returned
QueuedStopReportsReturned ==
    SdlApplied =>
        \A i \in DOMAIN stop_sent :
            stop_sent[i] \in Range(window) =>
                /\ stop_sent[i] \in Range(sdl_drained)
                /\ is_ffb_command(stop_sent[i]) =>
                      format_hex(stop_sent[i].data) \in Range(sdl_result.value)
\* a call returned the report of its stop of the previous effect
StopReportReturned ==
    /\ SdlApplied
    /\ stop_sent # <<>>
    /\ stop_sent[1] \in Range(window)
    /\ is_ffb_command(stop_sent[1])
    /\ Len(sdl_result.value) = 1

\* C39: apply_effect of SdlDriver stops and destroys the previously active
\* effect after its pre-drain and before its post-drain, and the packets that
\* the stop puts on the wire are queued inside the call's capture window and,
\* when is_ffb_command accepts them, are part of the call's result.
C39_StopPacketsInResult ==
    /\ StopInsideWindow
    /\ (SdlApplied /\ reader_alive /\ running /\ capture_process) =>
          \A i \in DOMAIN stop_sent :
              /\ stop_sent[i] \in Range(window)
              /\ is_ffb_command(stop_sent[i]) =>
                    format_hex(stop_sent[i].data) \in Range(sdl_result.value)

\* the timestamps of the packets of a sequence
Timestamps(seq) == {seq[i].timestamp : i \in DOMAIN seq}
\* the last apply_effect failed after its pre-drain
ApplyFailedAfterPreDrain ==
    ApplyFailedWith("EffectCreationFailed") \/ ApplyFailedWith("EffectPlaybackFailed")

\* C40: when apply_effect of SdlDriver fails with EffectCreationFailed or
\* EffectPlaybackFailed it makes no second get_packets call: the packets
\* queued since its pre-drain stay in the capture queue, no apply_effect call
\* returns them, and the pre-drain of the next apply_effect finds them in the
\* queue and discards them.
C40_FailedApplyLeavesPackets ==
    /\ [](ApplyFailedAfterPreDrain =>
            /\ Len(CallsOf("get_packets")) = 1
            /\ native_calls[1] = NativeCall("get_packets", 0)
            /\ sdl_drained = <<>>
            /\ Len(packets) >= Len(window)
            /\ SubSeq(packets, 1, Len(window)) = window
            /\ Timestamps(window) \subseteq sdl_left)
    /\ [](sdl_left \cap Timestamps(sdl_drained) = {})
    /\ [](sdl_left \cap {p.timestamp : p \in sdl_returned_prev} = {})
    /\ [](IF sdl_pc \in {"idle", "pre_drain"} /\ ~SdlApplied
          THEN sdl_left \subseteq Timestamps(packets)
          ELSE sdl_left \cap (Timestamps(packets) \cup Timestamps(wire)) = {})
    /\ [][(ApplyFailedAfterPreDrain /\ sdl_pc' = "pre_drain") =>
            (sdl_entry' = packets /\ SubSeq(sdl_entry', 1, Len(window)) = window)]_vars
    /\ [][(sdl_pc = "pre_drain" /\ sdl_pc' = "stop_prev") =>
            (packets' = <<>> /\ sdl_drained' = <<>> /\ sdl_result' = sdl_result)]_vars
\* a failed call left a packet in the queue; the next call found it there,
\* discarded it and returned another packet
C40_Witness ==
    /\ SdlApplied
    /\ sdl_left \cap Timestamps(sdl_entry) # {}
    /\ Len(sdl_result.value) = 1
    /\ sdl_left \cap Timestamps(sdl_drained) = {}

(***************************************************************************)
(* Properties of UsbMonitor, checked under SpecReader.                     *)
(***************************************************************************)
\* C8: get_packets returns the whole content of the packet queue and leaves
\* the queue empty, as one step; of two consecutive get_packets calls with
\* no push in between, the second returns nothing.
C8_GetPacketsDrains ==
    /\ rd_gets >= 1 => (rd_got = rd_expected /\ rd_packets = <<>>)
    /\ rd_gets = 2 => rd_got = <<>>
\* packets had been pushed and returned, and a second call in a row came back
\* empty
C8_Witness ==
    /\ rd_gets = 2
    /\ rd_got = <<>>
    /\ rd_pushed # <<>>
    /\ rd_packets = <<>>

\* C9: a valid 24-byte global header followed by one decodable record, read
\* in chunks split at any two byte boundaries, queues exactly one packet, the
\* packet queued when the same bytes arrive as a single chunk.
C9_SplitStreamQueuesOnePacket ==
    (/\ [platform |-> rd_platform, bytes |-> rd_stream] \in OneRecordStreams
     /\ rd_pos = Len(rd_stream)
     /\ rd_chunks <= 3
     /\ rd_pc \in {"check", "read", "exited"}) =>
        /\ Len(rd_pushed) = 1
        /\ rd_pushed = single_chunk_packets(rd_platform, rd_stream)
\* the global header is outstanding with 24 bytes buffered: the magic check
\* was made and failed (a check that passes sets header_read)
BadMagicFound == ~header_read /\ Len(pcap_buffer) >= PCAP_GLOBAL_HEADER_LEN
\* a failed magic check ends the reader loop, and nothing was or is pushed
BadMagicEndsSession == BadMagicFound => (rd_pc = "exited" /\ rd_pushed = <<>>)
\* the place in the stream of the first buffered byte
BufferStart == rd_pos - Len(pcap_buffer)
\* nothing is taken from the buffer before the header, the header of a stream
\* with a valid magic is taken as soon as its 24 bytes were read, and records
\* are taken from byte 24 on
HeaderDiscardedFirst ==
    /\ ~header_read => BufferStart = 0
    /\ header_read => BufferStart >= PCAP_GLOBAL_HEADER_LEN
    /\ (Slice(rd_stream, 0, 4) \in PcapMagics /\ rd_pos >= PCAP_GLOBAL_HEADER_LEN) =>
          header_read

\* C30: once 24 bytes are buffered, a first four bytes that are neither
\* D4 C3 B2 A1 nor A1 B2 C3 D4 end the reader loop and no packet is ever
\* pushed in that session; with a valid magic exactly the 24 header bytes are
\* discarded, once, and record parsing starts at byte 24 of the stream.
C30_MagicCheckedThenHeaderDiscarded == BadMagicEndsSession /\ HeaderDiscardedFirst

\* C31: the reader never takes bytes of the 24-byte global header for a record
\* header: while the global header has not been verified and discarded, the
\* record loop removes nothing from the buffer and decodes nothing, whatever
\* the chunk sizes, a first chunk of 16 to 23 bytes included.
C31_HeaderNeverParsedAsRecord ==
    [][(~header_read /\ ~header_read') =>
          /\ Len(pcap_buffer') >= Len(pcap_buffer)
          /\ SubSeq(pcap_buffer', 1, Len(pcap_buffer)) = pcap_buffer
          /\ rd_pushed' = rd_pushed]_vars

\* the complete records of a stream from the given place on: where each
\* starts and its length, 16 + included_length
RECURSIVE StreamRecords(_, _)
StreamRecords(stream, from) ==
    IF from + 16 > Len(stream) THEN <<>>
    ELSE LET total == 16 + U32LE(At(stream, from + 8), At(stream, from + 9),
                                 At(stream, from + 10), At(stream, from + 11))
         IN  IF from + total > Len(stream) THEN <<>>
             ELSE <<[start |-> from, total |-> total]>> \o StreamRecords(stream, from + total)
\* what the platform's decoder yields for the first k records, one after the
\* other
RECURSIVE DecodedRecords(_, _, _, _)
DecodedRecords(platform, stream, records, k) ==
    IF k = 0 THEN <<>>
    ELSE LET r == records[k]
             p == parse_record(platform, Slice(stream, r.start + 16, r.start + r.total))
         IN  DecodedRecords(platform, stream, records, k - 1)
                 \o (IF p = None THEN <<>> ELSE <<p.some>>)
\* the record loop has nothing left to take: less than a record header, or
\* less than the record the header announces
OnlyIncompleteRecordBuffered ==
    \/ Len(pcap_buffer) < 16
    \/ Len(pcap_buffer) < 16 + U32LE(At(pcap_buffer, 8), At(pcap_buffer, 9),
                                     At(pcap_buffer, 10), At(pcap_buffer, 11))

\* C32: once the global header is consumed, every complete record is decoded
\* once and in stream order, and only when all its 16 + included_length bytes
\* are buffered; exactly 16 + included_length bytes are removed per record
\* whether or not the decoder yields a packet; at most one packet is pushed
\* per record; and after each chunk only the bytes of one incomplete record
\* stay buffered.
C32_RecordsParsedInOrder ==
    header_read =>
        LET records == StreamRecords(rd_stream, PCAP_GLOBAL_HEADER_LEN)
            taken   == {k \in 0 .. Len(records) :
                           BufferStart = IF k = 0 THEN PCAP_GLOBAL_HEADER_LEN
                                         ELSE records[k].start + records[k].total}
        IN  /\ Cardinality(taken) = 1
            /\ pcap_buffer = Slice(rd_stream, BufferStart, rd_pos)
            /\ \A k \in taken :
                  /\ rd_pushed = DecodedRecords(rd_platform, rd_stream, records, k)
                  /\ Len(rd_pushed) <= k
            /\ rd_pc # "parse" => OnlyIncompleteRecordBuffered
\* three records arrived in several chunks: the first was rejected, the other
\* two were pushed in order, and the buffer is empty
C32_Witness ==
    /\ header_read
    /\ rd_chunks >= 3
    /\ Len(StreamRecords(rd_stream, PCAP_GLOBAL_HEADER_LEN)) = 3
    /\ BufferStart = Len(rd_stream)
    /\ Len(rd_pushed) = 2
    /\ pcap_buffer = <<>>

C35_StopAndEofEndTheReader ==
    /\ (rd_owner = "joining") ~> (rd_owner = "stopped")
    /\ [](rd_owner = "stopped" => (rd_pc = "exited" /\ ~rd_running /\ ~rd_child))
    /\ [][rd_owner = "stopped" => rd_pushed' = rd_pushed]_vars
    /\ (~rd_child) ~> (rd_pc = "exited")
    /\ [][rd_pc = "exited" => (rd_pc' = "exited" /\ rd_pushed' = rd_pushed)]_vars
\* stop_capture returned while the reader was in the middle of a record
C35_Witness ==
    /\ rd_owner = "stopped"
    /\ rd_pc = "exited"
    /\ header_read
    /\ rd_pos > PCAP_GLOBAL_HEADER_LEN
    /\ rd_pos < Len(rd_stream)

(***************************************************************************)
(* Properties of the pure functions, checked under SpecPure.               *)
(***************************************************************************)
\* round(m * 32767 / 10000), ties away from zero, clamped to [-32767, 32767]
RoundedScale(m) ==
    LET mag == IF m >= 0 THEN m ELSE 0 - m
        r   == Min((2 * mag * 32767 + 10000) \div 20000, 32767)
    IN  IF m >= 0 THEN r ELSE 0 - r
\* C13: for every magnitude m in [-10000, 10000], scale_magnitude(m) is
\* round(m * 32767 / 10000) clamped to [-32767, 32767]; scale(0) = 0,
\* scale(10000) = 32767 and scale(-10000) = -32767.
C13_ScaleRounds ==
    (pure_call.fn = "scale_magnitude" /\ pure_out # None) =>
        pure_out.some = RoundedScale(pure_call.arg)

\* the report ids 0x01..0x15, 0x21, 0xF3 and 0xF5
StatedReportIds == (1 .. 21) \cup {33, 243, 245}
\* C17: is_ffb_command accepts a packet if and only if it is host-to-device,
\* its payload is not empty, and its first payload byte is in {0x01..0x15,
\* 0x21, 0xF3, 0xF5} or its payload is at least 7 bytes long.
C17_ClassifierAccepts ==
    (pure_call.fn = "is_ffb_command" /\ pure_out # None) =>
        LET packet == pure_call.arg
        IN  pure_out.some =
               (/\ packet.direction = "HostToDevice"
                /\ Len(packet.data) > 0
                /\ (packet.data[1] \in StatedReportIds \/ Len(packet.data) >= 7))

\* C18: in the SetConditionParams report each saturation s in [0, 10000] is
\* encoded as floor(s / 2) - 1, saturating at 0, little-endian in data[7..9)
\* (positive) and data[9..11) (negative); 10000 is encoded as 4999.
C18_SaturationEncoding ==
    (pure_call.fn = "create_set_condition_params_report" /\ pure_out # None) =>
        LET report == pure_out.some
            params == pure_call.arg.params
        IN  /\ U16FromLE(report[11], report[12]) = Max(0, (params.positive_saturation \div 2) - 1)
            /\ U16FromLE(report[13], report[14]) = Max(0, (params.negative_saturation \div 2) - 1)
            /\ params.positive_saturation = 10000 => U16FromLE(report[11], report[12]) = 4999
\* saturations 3 and 9997 were encoded as 0 and 4997 (0x1385)
C18_Witness ==
    /\ pure_call.fn = "create_set_condition_params_report"
    /\ pure_out # None
    /\ pure_call.arg.params.positive_saturation = 3
    /\ pure_out.some[11] = 0 /\ pure_out.some[12] = 0
    /\ pure_out.some[13] = 133 /\ pure_out.some[14] = 19

\* create_set_condition_params_report has been applied
ConditionReportMade ==
    pure_call.fn = "create_set_condition_params_report" /\ pure_out # None
\* ceil(n * 25 / m) for n >= 0: the exact ceiling of n / 3.28 (m = 82) or of
\* n / 6.56 (m = 164)
ExactCeil(n, m) == ((n * 25) + (m - 1)) \div m

\* C23: in the SetConditionParams report the offset o in [-10000, 10000] is
\* encoded as o / 3.28 rounded away from zero, little-endian two's complement
\* in data[1..3); 328 and -328 are encoded as 100 and -100.
C23_OffsetEncoding ==
    ConditionReportMade =>
        LET o   == pure_call.arg.params.offset
            enc == I16FromLE(pure_out.some[5], pure_out.some[6])
        IN  /\ enc = (IF o >= 0 THEN ExactCeil(o, 82) ELSE 0 - ExactCeil(0 - o, 82))
            /\ o = 328 => enc = 100
            /\ o = -328 => enc = -100
\* the offset -328 was encoded as -100, 9C FF
C23_Witness ==
    /\ ConditionReportMade
    /\ pure_call.arg.params.offset = -328
    /\ pure_out.some[5] = 156 /\ pure_out.some[6] = 255

\* C24: in the SetConditionParams report each coefficient c in
\* [-10000, 10000] is encoded unchanged when c = 0 or c >= 10000 and as c - 1
\* otherwise, every negative c included (-1 as -2, -10000 as -10001),
\* little-endian two's complement in data[3..5) and data[5..7).
C24_CoefficientEncoding ==
    ConditionReportMade =>
        LET pos     == pure_call.arg.params.positive_coefficient
            neg     == pure_call.arg.params.negative_coefficient
            enc_pos == I16FromLE(pure_out.some[7], pure_out.some[8])
            enc_neg == I16FromLE(pure_out.some[9], pure_out.some[10])
        IN  /\ enc_pos = (IF pos = 0 \/ pos >= 10000 THEN pos ELSE pos - 1)
            /\ enc_neg = (IF neg = 0 \/ neg >= 10000 THEN neg ELSE neg - 1)
            /\ neg = -1 => enc_neg = -2
            /\ neg = -10000 => enc_neg = -10001
\* the coefficients 10000 and -10000 were encoded as 10000 (10 27) and
\* -10001 (EF D8)
C24_Witness ==
    /\ ConditionReportMade
    /\ pure_call.arg.params.negative_coefficient = -10000
    /\ pure_out.some[7] = 16 /\ pure_out.some[8] = 39
    /\ pure_out.some[9] = 239 /\ pure_out.some[10] = 216

\* C25: in the SetConditionParams report the dead band d in [0, 10000] is
\* encoded as the exact ceiling of d / 6.56 (0 for 0, 1 for 1, the quotient
\* for a multiple of 6.56), little-endian in data[11..13), and every data
\* byte after it is zero.
C25_DeadBandEncoding ==
    ConditionReportMade =>
        LET d   == pure_call.arg.params.dead_band
            enc == U16FromLE(pure_out.some[15], pure_out.some[16])
        IN  /\ enc = ExactCeil(d, 164)
            /\ d = 0 => enc = 0
            /\ d = 1 => enc = 1
            /\ \A i \in 17 .. 21 : pure_out.some[i] = 0
            /\ Len(pure_out.some) = 21
\* the dead band 1640, ten times 164, was encoded as 250 (FA 00)
C25_Witness ==
    /\ ConditionReportMade
    /\ pure_call.arg.params.dead_band = 1640
    /\ pure_out.some[15] = 250 /\ pure_out.some[16] = 0

\* sdl_effect_of was applied to an effect
NativeRecordMade == pure_call.fn = "sdl_effect_of" /\ pure_out # None

\* C27: in the native record of every variant the length is the infinite
\* sentinel (0xFFFFFFFF) when the duration is 0 and the duration otherwise; it
\* is never 0.
C27_NativeLength ==
    NativeRecordMade =>
        /\ pure_out.some.length =
              IF pure_call.arg.params.duration = 0
              THEN SDL_HAPTIC_INFINITY
              ELSE pure_call.arg.params.duration
        /\ pure_out.some.length # 0
\* a Friction condition of duration 0 was translated with the sentinel as its
\* length
C27_Witness ==
    /\ NativeRecordMade
    /\ pure_call.arg.type = "Condition"
    /\ pure_call.arg.effect.condition_type = "Friction"
    /\ pure_call.arg.params.duration = 0
    /\ pure_out.some.length = SDL_HAPTIC_INFINITY

\* out is value * 32767 / 10000 up to the rounding of the last unit, within
\* the native range
NativeScaled(value, out) ==
    LET a == IF value >= 0 THEN value ELSE 0 - value
        b == IF out >= 0 THEN out ELSE 0 - out
        q == Min((a * 32767) \div 10000, 32767)
    IN  /\ (value >= 0 => out >= 0) /\ (value <= 0 => out <= 0)
        /\ b \in {q, Min(q + 1, 32767)}
\* the magnitude and offset fields other than the centre of a Condition
FieldsScaled ==
    LET e == pure_call.arg
        n == pure_out.some
    IN  CASE e.type = "Constant" -> NativeScaled(e.force.magnitude, n.level)
          [] e.type = "Periodic" ->
                /\ NativeScaled(e.effect.magnitude, n.magnitude)
                /\ NativeScaled(e.effect.offset, n.offset)
          [] e.type = "Ramp" ->
                /\ NativeScaled(e.effect.start_magnitude, n.start)
                /\ NativeScaled(e.effect.end_magnitude, n.end)
          [] e.type = "Condition" ->
                /\ NativeScaled(e.effect.x_axis.positive_coefficient, n.right_coeff)
                /\ NativeScaled(e.effect.x_axis.negative_coefficient, n.left_coeff)
                /\ NativeScaled(e.effect.x_axis.positive_saturation, n.right_sat)
                /\ NativeScaled(e.effect.x_axis.negative_saturation, n.left_sat)
\* the centre of a Condition is its scaled offset
CentreScaled ==
    pure_call.arg.type = "Condition" =>
        NativeScaled(pure_call.arg.effect.x_axis.offset, pure_out.some.center)
\* every field but the centre is scaled
ScaledExceptCentre == NativeRecordMade => FieldsScaled

\* C28: every magnitude and offset field of every variant is converted by
\* value * 32767 / 10000 clamped to the native range: the Constant level, the
\* Periodic magnitude and offset, the Ramp start and end, and the Condition
\* coefficients, saturations and centre offset; none is copied unscaled.
C28_AllFieldsScaled == NativeRecordMade => (FieldsScaled /\ CentreScaled)

\* a decoder was applied to a record
RecordDecoded == pure_call.fn = "parse_record" /\ pure_out # None
\* Layout B (usbmon): the captured_length bytes after the 64-byte header,
\* bounded by the end of the record
UsbmonPayload(data) ==
    Slice(data, 64, Min(64 + U32LE(At(data, 36), At(data, 37), At(data, 38), At(data, 39)),
                        Len(data)))
\* Layout B: the records to keep
UsbmonKept(data) ==
    /\ Len(data) >= 64
    /\ At(data, 8) = 83
    /\ At(data, 9) \in {1, 2}
    /\ At(data, 10) < 128
    /\ UsbmonPayload(data) # <<>>
\* Layout A (USBPcap): the bytes after the declared header length
UsbpcapPayload(data) == Slice(data, At(data, 0) + 256 * At(data, 1), Len(data))
\* Layout A: the records to keep
UsbpcapKept(data) ==
    /\ Len(data) >= 27
    /\ At(data, 16) % 2 = 0
    /\ At(data, 22) \in {1, 2}
    /\ UsbpcapPayload(data) # <<>>

\* C34: each record decoder yields a packet for exactly the records it is to
\* keep.  Layout B keeps a record iff it has at least 64 bytes, event type
\* 'S', transfer type 1 or 2, bit 7 of byte 10 clear and a non-empty payload,
\* with endpoint = low 7 bits of byte 10; Layout A keeps a record iff bit 0
\* of byte 16 is clear, byte 22 is 1 or 2 and the payload after the declared
\* header length is non-empty, with endpoint = low 7 bits of byte 21.  Every
\* packet yielded is host-to-device with a non-empty payload, and a one-byte
\* payload is kept.
C34_DecodersKeepExactly ==
    RecordDecoded =>
        LET data    == pure_call.arg.data
            linux   == pure_call.arg.platform = "linux"
            kept    == IF linux THEN UsbmonKept(data) ELSE UsbpcapKept(data)
            payload == IF linux THEN UsbmonPayload(data) ELSE UsbpcapPayload(data)
            epbyte  == IF linux THEN At(data, 10) ELSE At(data, 21)
            out     == pure_out.some
        IN  /\ (out # None) <=> kept
            /\ out # None =>
                  /\ out.some.direction = "HostToDevice"
                  /\ out.some.endpoint = epbyte % 128
                  /\ out.some.data = payload
                  /\ out.some.data # <<>>
\* the same, for the records whose payload is not exactly one byte
DecodersKeepButOneByte ==
    (RecordDecoded /\ ~(\/ /\ pure_call.arg.platform = "linux"
                           /\ Len(pure_call.arg.data) = 65
                        \/ /\ pure_call.arg.platform = "windows"
                           /\ Len(pure_call.arg.data) = 28))
        => C34_DecodersKeepExactly

\* the envelope of the effect that was translated
TranslatedEnvelope ==
    IF pure_call.arg.type = "Constant" THEN pure_call.arg.force.envelope
    ELSE pure_call.arg.effect.envelope
\* the attack and fade levels are scaled as unsigned magnitudes
EnvelopeLevelsScaled ==
    (NativeRecordMade /\ pure_call.arg.type # "Condition") =>
        /\ NativeScaled(TranslatedEnvelope.attack_level, pure_out.some.attack_level)
        /\ NativeScaled(TranslatedEnvelope.fade_level, pure_out.some.fade_level)
        /\ pure_out.some.attack_level \in 0 .. 32767
        /\ pure_out.some.fade_level \in 0 .. 32767
\* the attack and fade times are the native attack and fade lengths
EnvelopeTimesUnchanged ==
    (NativeRecordMade /\ pure_call.arg.type # "Condition") =>
        /\ pure_out.some.attack_length = TranslatedEnvelope.attack_time
        /\ pure_out.some.fade_length = TranslatedEnvelope.fade_time

\* C36: in the native record of Constant, Periodic and Ramp effects,
\* attack_time and fade_time pass through unchanged as the attack and fade
\* lengths for every u32 value, and attack_level and fade_level are scaled
\* by value * 32767 / 10000 clamped to [0, 32767].
C36_EnvelopePassesThrough == EnvelopeTimesUnchanged /\ EnvelopeLevelsScaled

(***************************************************************************)
(* Properties of Scenario::play, checked under SpecPlay.                   *)
(***************************************************************************)
\* play has returned from a scenario that does not loop forever
PlayReturned == play_pc = "done" /\ ~scenario.loop_forever
\* the step a position of all_outputs belongs to (0-based idx)
StepOfOutput(k) == (k - 1) % Len(scenario.steps)

\* C15: Scenario.play with loop_forever false makes repeat_count passes over
\* the steps, calls apply_effect once per step in order, each followed by
\* stop_all_effects, and records one StepOutput per executed step, with
\* step_index the step's position plus 1; a step whose apply_effect failed
\* has an empty packet list, the later steps still run, and play returns Ok.
C15_PlayRunsEveryStep ==
    PlayReturned =>
        /\ play_result = Ok(all_outputs)
        /\ play_iteration = scenario.repeat_count
        /\ Len(all_outputs) = scenario.repeat_count * Len(scenario.steps)
        /\ Len(play_calls) = 2 * Len(all_outputs)
        /\ \A k \in 1 .. Len(all_outputs) :
             LET apply == play_calls[2 * k - 1]
                 step  == scenario.steps[StepOfOutput(k) + 1]
             IN  /\ apply.op = "apply_effect"
                 /\ apply.effect = step.effect
                 /\ play_calls[2 * k].op = "stop_all_effects"
                 /\ all_outputs[k].step_index = StepOfOutput(k) + 1
                 /\ all_outputs[k].step_name = effect_type(step.effect)
                 /\ all_outputs[k].packets =
                        (IF apply.reply.ok THEN apply.reply.value ELSE <<>>)
\* two passes over two steps, where the first apply_effect failed and a later
\* one returned a packet
C15_Witness ==
    /\ PlayReturned
    /\ scenario.repeat_count = 2
    /\ Len(scenario.steps) = 2
    /\ scenario.steps[1] # scenario.steps[2]
    /\ ~play_calls[1].reply.ok
    /\ all_outputs[1].packets = <<>>
    /\ all_outputs[4].packets # <<>>

====
